---- MODULE Spec2Model ----
(***************************************************************************)
(* jsonmap: a DSL that reshapes JSON documents.  This module models the    *)
(* tree-walking evaluator (jsonmap/ast.py, jsonmap/data.py) and the        *)
(* statement loop of JsonMapping.apply (jsonmap/parser.py).                *)
(*                                                                         *)
(* Representation.  Python values of different types are tagged tuples so  *)
(* that any two of them can be compared:                                   *)
(*   text            a sequence of one-character strings                   *)
(*   None            <<"null">>                                            *)
(*   number          <<"num", n>>          (integers only)                 *)
(*   str             <<"str", text>>                                       *)
(*   list            <<"arr", <<v1, ..., vn>> >>                           *)
(*   dict            <<"obj", << <<k1, v1>>, ... >> >>  in insertion order *)
(*   dict key / path segment   <<"s", text>> (a str) or <<"i", n>> (an int)*)
(*   raised exception          <<"raise", kind>>                           *)
(***************************************************************************)
EXTENDS Integers, Sequences, FiniteSets, TLC

(***************************************************************************)
(* Bounds of the model.                                                    *)
(***************************************************************************)
MaxLen == 2

\* the statements of a program text
MaxStatements == 2

\* the terminators put into a program text at one place
MaxExtra == 2

\* the characters of the path of a reference in a program text
MaxChars == 4

\* the array indices written in a program text are -MaxIndex..MaxIndex
MaxIndex == 3

(***************************************************************************)
(* JSON values (jsonmap/data.py, Json).                                    *)
(***************************************************************************)
Null == <<"null">>

Num(n) == <<"num", n>>

Str(text) == <<"str", text>>

Arr(values) == <<"arr", values>>

Obj(pairs) == <<"obj", pairs>>

SKey(text) == <<"s", text>>

IKey(n) == <<"i", n>>

Raise(kind) == <<"raise", kind>>

IsRaise(v) == v[1] = "raise"

IsDict(v) == v[1] = "obj"

IsList(v) == v[1] = "arr"

Items(v) == v[2]

Min(S) == CHOOSE x \in S : \A y \in S : x <= y

\* the first exception raised while producing the sequence, or <<"ok">>
FirstRaise(seq) ==
    LET bad == {i \in DOMAIN seq : IsRaise(seq[i])}
    IN  IF bad = {} THEN <<"ok">> ELSE seq[Min(bad)]

(***************************************************************************)
(* Python dict operations on the insertion-ordered pair list.              *)
(***************************************************************************)
DictHas(pairs, key) == \E i \in DOMAIN pairs : pairs[i][1] = key

DictGet(pairs, key) == pairs[CHOOSE i \in DOMAIN pairs : pairs[i][1] = key][2]

\* DictSet putting a new key in front of the keys the dict has
DictSetFront(pairs, key, value) ==
    IF DictHas(pairs, key)
    THEN [i \in DOMAIN pairs |-> IF pairs[i][1] = key THEN <<key, value>> ELSE pairs[i]]
    ELSE <<<<key, value>>>> \o pairs

\* DictSet leaving the value of an existing key as it is
DictSetKeepFirst(pairs, key, value) ==
    IF DictHas(pairs, key) THEN pairs ELSE Append(pairs, <<key, value>>)

\* d[key] = value: an existing key keeps its position and takes the new value
DictSet(pairs, key, value) ==
    IF DictHas(pairs, key)
    THEN [i \in DOMAIN pairs |-> IF pairs[i][1] = key THEN <<key, value>> ELSE pairs[i]]
    ELSE Append(pairs, <<key, value>>)

RECURSIVE DictUpdate(_, _)
\* d |= other  (also dict(iterable of pairs) when d is empty)
DictUpdate(pairs, other) ==
    IF other = <<>> THEN pairs
    ELSE DictUpdate(DictSet(pairs, Head(other)[1], Head(other)[2]), Tail(other))

(***************************************************************************)
(* int(field) of data.resolve: a path segment is already an int (list-index*)
(* references) or decimal text with an optional sign.                      *)
(***************************************************************************)
Digits == <<"0", "1", "2", "3", "4", "5", "6", "7", "8", "9">>

IsDigit(c) == \E d \in DOMAIN Digits : Digits[d] = c

DigitValue(c) == (CHOOSE d \in DOMAIN Digits : Digits[d] = c) - 1

RECURSIVE DecimalValue(_)
DecimalValue(text) ==
    IF text = <<>> THEN 0
    ELSE 10 * DecimalValue(SubSeq(text, 1, Len(text) - 1)) + DigitValue(text[Len(text)])

AllDigits(text) == text # <<>> /\ \A i \in DOMAIN text : IsDigit(text[i])

\* int(): <<"int", value>>, or <<"raise", "ValueError">>
ToInt(field) ==
    IF field[1] = "i" THEN <<"int", field[2]>>
    ELSE LET text == field[2]
         IN  IF AllDigits(text) THEN <<"int", DecimalValue(text)>>
             ELSE IF text # <<>> /\ text[1] = "-" /\ AllDigits(Tail(text))
             THEN <<"int", 0 - DecimalValue(Tail(text))>>
             ELSE IF text # <<>> /\ text[1] = "+" /\ AllDigits(Tail(text))
             THEN <<"int", DecimalValue(Tail(text))>>
             ELSE Raise("ValueError")

\* ListIndex with the index taken as one-based
ListIndexOneBased(values, k) ==
    IF k >= 1 /\ k <= Len(values) THEN values[k] ELSE Raise("IndexError")

\* ListIndex without the indices that count from the end
ListIndexUnsigned(values, k) ==
    IF k >= 0 /\ k < Len(values) THEN values[k + 1] ELSE Raise("IndexError")

\* list[k] with Python's indexing: k in -n..n-1, negative k counts from the end
ListIndex(values, k) ==
    IF k >= 0 /\ k < Len(values) THEN values[k + 1]
    ELSE IF k < 0 /\ k >= 0 - Len(values) THEN values[Len(values) + k + 1]
    ELSE Raise("IndexError")

RECURSIVE resolve(_, _)
\* data.resolve: fetch a value from a json object by walking down the path
resolve(path, obj) ==
    IF path = <<>> THEN obj
    ELSE LET field == Head(path)
         IN  IF IsDict(obj)
             THEN IF DictHas(Items(obj), field)
                  THEN resolve(Tail(path), DictGet(Items(obj), field))
                  ELSE Raise("KeyError")
             ELSE IF IsList(obj)
             THEN LET k == ToInt(field)
                  IN  IF IsRaise(k) THEN k
                      ELSE LET item == ListIndex(Items(obj), k[2])
                           IN  IF IsRaise(item) THEN item ELSE resolve(Tail(path), item)
             ELSE Raise("ValueError")

(***************************************************************************)
(* The abstract syntax tree (jsonmap/ast.py).  Nodes are tagged tuples;    *)
(* source positions play no part in evaluation and are left out.           *)
(*   Lhs:  <<"Lhs", text>>, <<"NoOpLhs">>, <<"AnonymousLhs">>              *)
(*   Rhs:  <<"NoOpRhs">>, <<"ValueLiteral", text>>, <<"NumericLiteral", n>>*)
(*         (a number that is not integral: <<"NumericLiteral", kind,       *)
(*         mantissa, exponent>>),                                          *)
(*         <<"Reference", path, global_scope>>,                            *)
(*         <<"ListIndexReference", path, global_scope>>,                   *)
(*         <<"Array", values>>, <<"Scope", contents>>,                     *)
(*         <<"Bind", contents, reference>>, <<"Map", contents, source>>,   *)
(*         <<"Zip", contents, sources>>                                    *)
(*   contents: <<"list", statements>> or <<"one", statement>>              *)
(*   Statement: <<"Statement", lhs, rhs>>                                  *)
(***************************************************************************)
NamedLhs(text) == <<"Lhs", text>>

NoOpLhs == <<"NoOpLhs">>

AnonymousLhs == <<"AnonymousLhs">>

NoOpRhs == <<"NoOpRhs">>

ValueLiteral(text) == <<"ValueLiteral", text>>

NumericLiteral(n) == <<"NumericLiteral", n>>

\* NumericLiteral.evaluate: the value of the literal; an integral number is
\* the document number, another one keeps its kind, mantissa and exponent
NumericLiteralEvaluate(node) ==
    IF Len(node) = 2 THEN <<"num", node[2]>> ELSE <<"float", node[2], node[3], node[4]>>

Reference(path, global) == <<"Reference", path, global>>

ListIndexReference(path, global) == <<"ListIndexReference", path, global>>

Array(values) == <<"Array", values>>

Scope(contents) == <<"Scope", contents>>

Bind(contents, reference) == <<"Bind", contents, reference>>

Map(contents, source) == <<"Map", contents, source>>

Zip(contents, sources) == <<"Zip", contents, sources>>

StatementList(statements) == <<"list", statements>>

OneStatement(statement) == <<"one", statement>>

Statement(lhs, rhs) == <<"Statement", lhs, rhs>>

\* isinstance(node, Reference): ListIndexReference is a subclass of Reference
IsReference(node) == node[1] \in {"Reference", "ListIndexReference"}

\* what iterating a list or a dict yields: the items of a list, the keys of a dict
Iterate(collection) ==
    IF IsList(collection) THEN Items(collection)
    ELSE [i \in DOMAIN Items(collection) |->
             LET key == Items(collection)[i][1]
             IN  IF key[1] = "s" THEN Str(key[2]) ELSE Num(key[2])]

\* the result of Statement.evaluate: None, or a (key, value) tuple
NoEntry == <<"none">>

Entry(key, value) == <<"entry", key, value>>

\* Collect leaving out the values that are None
CollectWithoutNull(values) ==
    LET failure == FirstRaise(values)
    IN  IF IsRaise(failure) THEN failure ELSE Arr(SelectSeq(values, LAMBDA v : v # Null))

\* a list comprehension: the list of the values, or the first exception raised
Collect(values) ==
    LET failure == FirstRaise(values)
    IN  IF IsRaise(failure) THEN failure ELSE Arr(values)

\* StatementEvaluate treating a statement whose value is None as a no-op
StatementEvaluateSkipsNull(lhs, value) ==
    IF lhs[1] = "NoOpLhs" \/ value = Null THEN NoEntry
    ELSE IF IsRaise(value) THEN value
    ELSE Entry(IF lhs[1] = "AnonymousLhs" THEN SKey(<<>>) ELSE SKey(lhs[2]), value)

\* StatementEvaluate with a no-op statement bound to the placeholder key
StatementEvaluateNoOpKey(lhs, value) ==
    IF IsRaise(value) THEN value
    ELSE Entry(IF lhs[1] \in {"NoOpLhs", "AnonymousLhs"} THEN SKey(<<>>) ELSE SKey(lhs[2]), value)

\* Statement.evaluate, given what evaluating the right-hand side yields
StatementEvaluate(lhs, value) ==
    IF lhs[1] = "NoOpLhs" THEN NoEntry
    ELSE IF IsRaise(value) THEN value
    ELSE Entry(IF lhs[1] = "AnonymousLhs" THEN SKey(<<>>) ELSE SKey(lhs[2]), value)

\* ScopeEvaluate with the single statement's value wrapped under its key
ScopeEvaluateWrapped(kind, results) ==
    LET failure == FirstRaise(results)
        entries == SelectSeq(results, LAMBDA r : r # NoEntry)
    IN  IF IsRaise(failure) THEN failure
        ELSE Obj(DictUpdate(<<>>, [i \in DOMAIN entries |-> <<entries[i][2], entries[i][3]>>]))

\* Scope.evaluate, given what evaluating the statement(s) of self.contents yields:
\* a list of statements makes a dict, a single statement yields its bare value
ScopeEvaluate(kind, results) ==
    IF kind = "list"
    THEN LET failure == FirstRaise(results)
             entries == SelectSeq(results, LAMBDA r : r # NoEntry)
         IN  IF IsRaise(failure) THEN failure
             ELSE Obj(DictUpdate(<<>>, [i \in DOMAIN entries |-> <<entries[i][2], entries[i][3]>>]))
    ELSE IF IsRaise(results[1]) THEN results[1]
    ELSE IF results[1] = NoEntry THEN Raise("ValueError")
    ELSE results[1][3]

\* ReferenceEvaluate without the global marker: always the local scope
ReferenceEvaluateLocal(node, scope, universe) == resolve(node[2], scope)

\* ReferenceEvaluate rejecting a reference without path segments
ReferenceEvaluateNonEmpty(node, scope, universe) ==
    IF node[2] = <<>> THEN Raise("ValueError")
    ELSE IF node[3] THEN resolve(node[2], universe) ELSE resolve(node[2], scope)

\* Reference.evaluate
ReferenceEvaluate(node, scope, universe) ==
    IF node[3] THEN resolve(node[2], universe) ELSE resolve(node[2], scope)

\* collate: the argument of map or zip, given what evaluating it yields when it
\* is an array literal; a reference is resolved in the scope
collate(source, scope, evaluated) ==
    LET to_map == IF source[1] = "Array" THEN evaluated ELSE resolve(source[2], scope)
    IN  IF IsRaise(to_map) THEN to_map
        ELSE IF ~(IsList(to_map) \/ IsDict(to_map)) THEN Raise("ValueError")
        ELSE to_map

\* BindScope without the check that the reference resolved to an object
BindScopeUnchecked(reference, scope) == resolve(reference[2], scope)

\* Bind.evaluate: the scope the body is evaluated in
BindScope(reference, scope) ==
    LET narrowed_scope == resolve(reference[2], scope)
    IN  IF IsRaise(narrowed_scope) THEN narrowed_scope
        ELSE IF IsDict(narrowed_scope) THEN narrowed_scope
        ELSE Raise("ValueError")

\* MapScopes with the items taken last to first
MapScopesReversed(to_map) ==
    [i \in DOMAIN Iterate(to_map) |-> Iterate(to_map)[Len(Iterate(to_map)) + 1 - i]]

\* Map.evaluate: the scopes the body is evaluated in, one per item
MapScopes(to_map) == Iterate(to_map)

\* Deanonymize with the position written as a string key
DeanonymizeStringKey(position, arg_list) ==
    IF \A i \in DOMAIN arg_list : IsDict(arg_list[i])
    THEN arg_list
    ELSE [i \in DOMAIN arg_list |-> Obj(<< <<SKey(<<Digits[position + 1]>>), arg_list[i]>> >>)]

\* Zip.evaluate, lines 403-409: objects are used as they are, anything else is
\* wrapped in a dict keyed by the position of the zip argument
Deanonymize(position, arg_list) ==
    IF \A i \in DOMAIN arg_list : IsDict(arg_list[i])
    THEN arg_list
    ELSE [i \in DOMAIN arg_list |-> Obj(<< <<IKey(position), arg_list[i]>> >>)]

RECURSIVE MergeScopesFirstWins(_, _)
\* MergeScopes merging the last scope first, so that earlier scopes override
MergeScopesFirstWins(acc, scopes) ==
    IF scopes = <<>> THEN Obj(acc)
    ELSE MergeScopesFirstWins(DictUpdate(acc, Items(scopes[Len(scopes)])),
                              SubSeq(scopes, 1, Len(scopes) - 1))

RECURSIVE MergeScopes(_, _)
\* reduce(operator.ior, scopes, {})
MergeScopes(acc, scopes) ==
    IF scopes = <<>> THEN Obj(acc)
    ELSE MergeScopes(DictUpdate(acc, Items(Head(scopes))), Tail(scopes))

\* ZipTuples as long as the longest argument, an exhausted argument giving {}
ZipTuplesLongest(indexed) ==
    IF indexed = <<>> THEN <<>>
    ELSE LET longest == CHOOSE len \in {Len(indexed[k]) : k \in DOMAIN indexed} :
                            \A k \in DOMAIN indexed : Len(indexed[k]) <= len
         IN  [i \in 1..longest |->
                 [k \in DOMAIN indexed |-> IF i <= Len(indexed[k]) THEN indexed[k][i] ELSE Obj(<<>>)]]

\* zip(*indexed): one tuple per position, as many as the shortest argument has
ZipTuples(indexed) ==
    IF indexed = <<>> THEN <<>>
    ELSE LET shortest == Min({Len(indexed[k]) : k \in DOMAIN indexed})
         IN  [i \in 1..shortest |-> [k \in DOMAIN indexed |-> indexed[k][i]]]

\* Zip.evaluate: the scopes the body is evaluated in, one per position
ZipScopes(resolved) ==
    LET indexed == [k \in DOMAIN resolved |-> Deanonymize(k - 1, Iterate(resolved[k]))]
        zipped == ZipTuples(indexed)
    IN  [i \in DOMAIN zipped |-> MergeScopes(<<>>, zipped[i])]

RECURSIVE evaluate(_, _, _)
\* evaluate(scope, universe) of a statement, of the contents of a scope and of
\* every class of right-hand side
evaluate(node, scope, universe) ==
    CASE node[1] = "Statement" ->
            StatementEvaluate(node[2], evaluate(node[3], scope, universe))
      [] node[1] = "list" ->
            ScopeEvaluate("list", [i \in DOMAIN node[2] |-> evaluate(node[2][i], scope, universe)])
      [] node[1] = "one" ->
            ScopeEvaluate("one", <<evaluate(node[2], scope, universe)>>)
      [] node[1] = "NoOpRhs" -> Null
      [] node[1] = "ValueLiteral" -> Str(node[2])
      [] node[1] = "NumericLiteral" -> NumericLiteralEvaluate(node)
      [] IsReference(node) -> ReferenceEvaluate(node, scope, universe)
      [] node[1] = "Array" ->
            Collect([i \in DOMAIN node[2] |-> evaluate(node[2][i], scope, universe)])
      [] node[1] = "Scope" -> evaluate(node[2], scope, universe)
      [] node[1] = "Bind" ->
            LET narrowed_scope == BindScope(node[3], scope)
            IN  IF IsRaise(narrowed_scope) THEN narrowed_scope
                ELSE evaluate(node[2], narrowed_scope, universe)
      [] node[1] = "Map" ->
            LET Mapped(to_map) ==
                    IF IsRaise(to_map) THEN to_map
                    ELSE Collect([i \in DOMAIN MapScopes(to_map) |->
                                     evaluate(node[2], MapScopes(to_map)[i], universe)])
            IN  Mapped(collate(node[3], scope, evaluate(node[3], scope, universe)))
      [] node[1] = "Zip" ->
            LET Zipped(resolved) ==
                    IF IsRaise(FirstRaise(resolved)) THEN FirstRaise(resolved)
                    ELSE Collect([i \in DOMAIN ZipScopes(resolved) |->
                                     evaluate(node[2], ZipScopes(resolved)[i], universe)])
            IN  Zipped([k \in DOMAIN node[3] |->
                           collate(node[3][k], scope, evaluate(node[3][k], scope, universe))])

(***************************************************************************)
(* The tokenizer (jsonmap/tokens.py).  The source is a text; the character *)
(* stream peekable(enumerate(program)) is the text with the index i of the *)
(* next character (the character at offset i - 1).  A function returns     *)
(* <<"ok", value, i>> with the stream position it leaves, or the exception *)
(* it raises.  next() and peek() on the exhausted stream raise             *)
(* StopIteration.                                                          *)
(*   SymbolToken      <<"SymbolToken", position, symbol>>                  *)
(*   BareWord         <<"BareWord", position, value>>                      *)
(*   LiteralToken     <<"LiteralToken", position, text>>                   *)
(*   InterpolationToken  <<"InterpolationToken", position, pattern>>       *)
(*   ReferenceToken, ListIndexReferenceToken                               *)
(*                    <<class, position, path, global_scope>>              *)
(***************************************************************************)
StopIteration == <<"raise", "StopIteration">>

\* JsonMapSyntaxError(position, ...)
JsonMapSyntaxError(position) == <<"raise", "JsonMapSyntaxError", position>>

\* InvalidEscapeSequence(pos, escape_code): the class is imported from
\* jsonmap/error.py, which does not hold it; the specification lists it among
\* the kinds of SyntaxError, which carry an offset
InvalidEscapeSequence(position) == <<"raise", "JsonMapSyntaxError", position>>

SymbolToken(position, symbol) == <<"SymbolToken", position, symbol>>

BareWord(position, value) == <<"BareWord", position, value>>

LiteralToken(position, text) == <<"LiteralToken", position, text>>

InterpolationToken(position, pattern) == <<"InterpolationToken", position, pattern>>

ReferenceToken(position, path, global_scope) == <<"ReferenceToken", position, path, global_scope>>

ListIndexReferenceToken(position, path, global_scope) ==
    <<"ListIndexReferenceToken", position, path, global_scope>>

\* Token.is_symbol
is_symbol(token, symbol) == token[1] = "SymbolToken" /\ token[3] = symbol

\* str.isspace for the characters of the model's sources
IsSpace(char) == char \in {" ", "\n", "\t"}

\* the backquote character, which opens and closes an interpolation
Backquote == "<BQ>"

\* ESCAPED_CHARS; the backspace character is written "<BS>"
ESCAPED_CHARS ==
    [c \in {"b", "f", "n", "r", "t", "\"", "\\"} |->
        CASE c = "b" -> "<BS>" [] c = "f" -> "\f" [] c = "n" -> "\n" [] c = "r" -> "\r"
          [] c = "t" -> "\t" [] c = "\"" -> "\"" [] c = "\\" -> "\\"]

HexDigits == <<"0", "1", "2", "3", "4", "5", "6", "7", "8", "9", "a", "b", "c", "d", "e", "f">>

IsHexDigit(c) == \E d \in DOMAIN HexDigits : HexDigits[d] = c

RECURSIVE HexValue(_)
HexValue(text) ==
    IF text = <<>> THEN 0
    ELSE 16 * HexValue(SubSeq(text, 1, Len(text) - 1))
            + (CHOOSE d \in DOMAIN HexDigits : HexDigits[d] = text[Len(text)]) - 1

\* the characters with the code points 32..126
Printable ==
    <<" ", "!", "\"", "#", "$", "%", "&", "'", "(", ")", "*", "+",
       ",", "-", ".", "/", "0", "1", "2", "3", "4", "5", "6", "7",
       "8", "9", ":", ";", "<", "=", ">", "?", "@", "A", "B", "C",
       "D", "E", "F", "G", "H", "I", "J", "K", "L", "M", "N", "O",
       "P", "Q", "R", "S", "T", "U", "V", "W", "X", "Y", "Z", "[",
       "\\", "]", "^", "_", Backquote, "a", "b", "c", "d", "e", "f", "g",
       "h", "i", "j", "k", "l", "m", "n", "o", "p", "q", "r", "s",
       "t", "u", "v", "w", "x", "y", "z", "{", "|", "}", "~">>

\* chr(): the character with the code point; a character that is not in the
\* table is written by its code point
Chr(code) ==
    CASE code \in 32..126 -> Printable[code - 31]
      [] code = 8 -> "<BS>" [] code = 9 -> "\t" [] code = 10 -> "\n" [] code = 12 -> "\f"
      [] code = 13 -> "\r"
      [] OTHER -> "<" \o ToString(code) \o ">"

\* the text without its sign
Unsigned(text) == IF text # <<>> /\ text[1] \in {"+", "-"} THEN Tail(text) ELSE text

\* str.strip
Strip(text) ==
    LET marks == {k \in DOMAIN text : ~IsSpace(text[k])}
    IN  IF marks = {} THEN <<>>
        ELSE SubSeq(text, Min(marks), CHOOSE k \in marks : \A m \in marks : m <= k)

\* int(hex_code, 16): <<"int", value>>, or ValueError.  The text may hold
\* whitespace around the number, a sign, the prefix 0x and single underscores
\* between the digits (lower-case digits).
HexInt(hex_code) ==
    LET Prefixed(unsigned) == Len(unsigned) >= 2 /\ unsigned[1] = "0" /\ unsigned[2] = "x"
        Grouped(body, prefixed) ==
            /\ body # <<>>
            /\ \A k \in DOMAIN body :
                  \/ IsHexDigit(body[k])
                  \/ /\ body[k] = "_"
                     /\ k < Len(body) /\ IsHexDigit(body[k + 1])
                     /\ (k > 1 \/ prefixed)
        Signed(stripped, value) == <<"int", IF stripped[1] = "-" THEN 0 - value ELSE value>>
        Read(stripped, body, prefixed) ==
            IF ~Grouped(body, prefixed) THEN Raise("ValueError")
            ELSE Signed(stripped, HexValue(SelectSeq(body, IsHexDigit)))
        Body(stripped, unsigned, prefixed) ==
            Read(stripped, IF prefixed THEN SubSeq(unsigned, 3, Len(unsigned)) ELSE unsigned, prefixed)
        Number(stripped, unsigned) == Body(stripped, unsigned, Prefixed(unsigned))
        Stripped(stripped) == Number(stripped, Unsigned(stripped))
    IN  Stripped(Strip(hex_code))

\* _capture_escaped_hex_value: up to length characters are taken from the
\* stream and read as a hexadecimal number; chr raises ValueError for a
\* negative number
\* <<"ok", character, i>> or ValueError
capture_escaped_hex_value(program, i, length) ==
    LET Character(code, last) ==
            IF IsRaise(code) THEN code
            ELSE IF code[2] < 0 THEN Raise("ValueError")
            ELSE <<"ok", Chr(code[2]), last + 1>>
        Slice(last) == Character(HexInt(SubSeq(program, i, last)), last)
    IN  Slice(IF i + length - 1 <= Len(program) THEN i + length - 1 ELSE Len(program))

RECURSIVE capture_string(_, _, _, _)
\* capture_string: the text up to the delimiter, which is consumed
capture_string(program, i, delimiter, token) ==
    IF i > Len(program) THEN StopIteration
    ELSE IF program[i] = delimiter THEN <<"ok", token, i + 1>>
    ELSE IF program[i] # "\\" THEN capture_string(program, i + 1, delimiter, Append(token, program[i]))
    ELSE IF i + 1 > Len(program) THEN StopIteration
    ELSE LET escape_code == program[i + 1]
             Escaped(hex_code) ==
                 IF IsRaise(hex_code) THEN hex_code
                 ELSE capture_string(program, hex_code[3], delimiter, Append(token, hex_code[2]))
         IN  IF escape_code \in DOMAIN ESCAPED_CHARS
             THEN capture_string(program, i + 2, delimiter, Append(token, ESCAPED_CHARS[escape_code]))
             ELSE IF escape_code \in {"x", "u"}
             THEN Escaped(capture_escaped_hex_value(program, i + 2,
                                                    IF escape_code = "x" THEN 2 ELSE 4))
             ELSE InvalidEscapeSequence(i - 1)

RECURSIVE capture_bare_word_comma(_, _, _, _)
\* capture_bare_word with a comma taken as a character of the word
capture_bare_word_comma(program, i, delimiters, token) ==
    IF i > Len(program) THEN StopIteration
    ELSE IF program[i] \in delimiters \ {","} THEN <<"ok", token, i>>
    ELSE IF IsSpace(program[i]) THEN <<"ok", token, i + 1>>
    ELSE capture_bare_word_comma(program, i + 1, delimiters, Append(token, program[i]))

RECURSIVE capture_bare_word(_, _, _, _)
\* capture_bare_word: text which is not in quotation marks; token holds first
capture_bare_word(program, i, delimiters, token) ==
    IF i > Len(program) THEN StopIteration
    ELSE IF program[i] \in delimiters THEN <<"ok", token, i>>
    ELSE IF IsSpace(program[i]) THEN <<"ok", token, i + 1>>
    ELSE capture_bare_word(program, i + 1, delimiters, Append(token, program[i]))

RECURSIVE parse_reference(_, _, _, _, _, _)
\* parse_reference: start is the stream position at the first peek
parse_reference(program, i, start, path, global_scope, is_list_index) ==
    IF i > Len(program) THEN StopIteration
    ELSE LET next_char == program[i]
             QuotedSegment(token) ==
                 IF IsRaise(token) THEN token
                 ELSE parse_reference(program, token[3], start, Append(path, SKey(token[2])),
                                      global_scope, is_list_index)
             IndexSegment(k, next) ==
                 IF IsRaise(k) THEN k
                 ELSE parse_reference(program, next, start, Append(path, IKey(k[2])),
                                      global_scope, is_list_index)
             WordSegment(bare_word) ==
                 IF IsRaise(bare_word) THEN bare_word
                 ELSE IF is_list_index THEN IndexSegment(ToInt(SKey(bare_word[2])), bare_word[3])
                 ELSE parse_reference(program, bare_word[3], start,
                                      Append(path, SKey(bare_word[2])), global_scope, is_list_index)
         IN  IF IsSpace(next_char) \/ next_char \in {";", ",", "{", "[", "}", "]"}
             THEN <<"ok",
                    IF is_list_index THEN ListIndexReferenceToken(start - 1, path, global_scope)
                    ELSE ReferenceToken(start - 1, path, global_scope),
                    i>>
             ELSE IF next_char = "."
             THEN parse_reference(program, i + 1, start, path, global_scope, is_list_index)
             ELSE IF next_char = "!"
             THEN IF Len(path) > 0 THEN JsonMapSyntaxError(i - 1)
                  ELSE parse_reference(program, i + 1, start, path, TRUE, is_list_index)
             ELSE IF next_char = "\""
             THEN QuotedSegment(capture_string(program, i + 1, "\"", <<>>))
             ELSE IF next_char = "?"
             THEN parse_reference(program, i + 1, start, path, global_scope, TRUE)
             ELSE WordSegment(capture_bare_word(program, i,
                                         {".", ";", ",", "{", "}", "[", "]", " "}, <<>>))

\* the symbol a character stands for between the tokens
SymbolOf(character) ==
    CASE character \in {";", ","} -> "end_of_statement"
      [] character = "{" -> "left_curly_brace"
      [] character = "}" -> "right_curly_brace"
      [] character = "[" -> "left_square_bracket"
      [] character = "]" -> "right_square_bracket"
      [] character \in {"=", ":"} -> "assignment"
      [] OTHER -> "none"

\* CaptureToken with a reference carrying the offset of its "&"
CaptureTokenReferenceAtMarker(program, i) ==
    LET position == i - 1
        character == program[i]
        Literal(token) ==
            IF IsRaise(token) THEN token
            ELSE <<"ok", LiteralToken(position, token[2]), token[3]>>
        Interpolation(token) ==
            IF IsRaise(token) THEN token
            ELSE <<"ok", InterpolationToken(position, token[2]), token[3]>>
        Word(bare_word) ==
            IF IsRaise(bare_word) THEN bare_word
            ELSE <<"ok", BareWord(position, bare_word[2]), bare_word[3]>>
    IN  CASE character = "\"" -> Literal(capture_string(program, i + 1, "\"", <<>>))
          [] character = Backquote -> Interpolation(capture_string(program, i + 1, Backquote, <<>>))
          [] character = "&" -> parse_reference(program, i + 1, i, <<>>, FALSE, FALSE)
          [] OTHER -> Word(capture_bare_word(program, i + 1,
                                             {" ", ":", "]", ",", ";", "}"}, <<character>>))

\* one turn of the loop of tokenize at a character that is no whitespace and
\* no symbol: the token and the stream position behind it, or the exception
CaptureToken(program, i) ==
    LET position == i - 1
        character == program[i]
        Literal(token) ==
            IF IsRaise(token) THEN token
            ELSE <<"ok", LiteralToken(position, token[2]), token[3]>>
        Interpolation(token) ==
            IF IsRaise(token) THEN token
            ELSE <<"ok", InterpolationToken(position, token[2]), token[3]>>
        Word(bare_word) ==
            IF IsRaise(bare_word) THEN bare_word
            ELSE <<"ok", BareWord(position, bare_word[2]), bare_word[3]>>
    IN  CASE character = "\"" -> Literal(capture_string(program, i + 1, "\"", <<>>))
          [] character = Backquote -> Interpolation(capture_string(program, i + 1, Backquote, <<>>))
          [] character = "&" -> parse_reference(program, i + 1, i + 1, <<>>, FALSE, FALSE)
          [] OTHER -> Word(capture_bare_word(program, i + 1,
                                             {" ", ":", "]", ",", ";", "}"}, <<character>>))

RECURSIVE TokenizeFrom(_, _, _)
\* the loop of tokenize, from stream position i on
TokenizeFrom(program, i, tokens) ==
    CASE i > Len(program) -> <<"ok", tokens>>
      [] i <= Len(program) /\ IsSpace(program[i]) -> TokenizeFrom(program, i + 1, tokens)
      [] i <= Len(program) /\ SymbolOf(program[i]) # "none" ->
             TokenizeFrom(program, i + 1, Append(tokens, SymbolToken(i - 1, SymbolOf(program[i]))))
      [] OTHER ->
             LET Captured(token) ==
                     IF IsRaise(token) THEN token
                     ELSE TokenizeFrom(program, token[3], Append(tokens, token[2]))
             IN  Captured(CaptureToken(program, i))

\* tokenize: the tokens of the program as <<"ok", tokens>>, or the exception
tokenize(program) == TokenizeFrom(program, 1, <<>>)

(***************************************************************************)
(* The parser (jsonmap/ast.py).  The token stream peekable(program_tokens) *)
(* is the token list with the index j of the next token.  A parse function *)
(* returns <<"ok", node, j>> with the stream position it leaves, or the    *)
(* exception it raises; StopIteration is <<"stop", j>>, with the stream    *)
(* position at which consume_statement catches it.                         *)
(***************************************************************************)
Stop(j) == <<"stop", j>>

IsStop(parsed) == parsed[1] = "stop"

IsOk(parsed) == parsed[1] = "ok"

RECURSIVE Power10(_)
Power10(e) == IF e = 0 THEN 1 ELSE 10 * Power10(e - 1)

RECURSIVE Normalized(_, _)
\* mantissa * 10^exponent as <<mantissa, exponent>> with the exponent 0, or
\* with a negative exponent and a mantissa that is no multiple of ten
Normalized(mantissa, exponent) ==
    IF mantissa = 0 THEN <<0, 0>>
    ELSE IF exponent >= 0 THEN <<mantissa * Power10(exponent), 0>>
    ELSE IF mantissa % 10 = 0 THEN Normalized(mantissa \div 10, exponent + 1)
    ELSE <<mantissa, exponent>>

\* text is [digits][.][digits] with at least one digit
IsDecimal(text) ==
    /\ \E i \in DOMAIN text : IsDigit(text[i])
    /\ \A i \in DOMAIN text : IsDigit(text[i]) \/ text[i] = "."
    /\ Cardinality({i \in DOMAIN text : text[i] = "."}) <= 1

\* text is [sign]digits
IsExponent(text) ==
    IF text # <<>> /\ text[1] \in {"+", "-"} THEN AllDigits(Tail(text)) ELSE AllDigits(text)

\* NumericLiteral.parse_float: float(value), or <<"none">> where float
\* raises ValueError.  An integral number n is <<"float", n>>, a number
\* mantissa * 10^exponent that is not integral <<"float", "fraction",
\* mantissa, exponent>>, and the others <<"float", "nan", 0, 0>> and
\* <<"float", "inf", sign, 0>>.  Sources of the model hold lower-case letters
\* only and neither "_" nor whitespace inside a word.
parse_float(value) ==
    LET sign == IF value # <<>> /\ value[1] = "-" THEN 0 - 1 ELSE 1
        body == Unsigned(value)
        marks == {i \in DOMAIN body : body[i] = "e"}
        split == IF marks = {} THEN Len(body) + 1 ELSE Min(marks)
        decimal == SubSeq(body, 1, split - 1)
        exponent == SubSeq(body, split + 1, Len(body))
        point == {i \in DOMAIN decimal : decimal[i] = "."}
        digits == SelectSeq(decimal, IsDigit)
        places == IF point = {} THEN 0 ELSE Len(decimal) - Min(point)
        shift == IF marks = {} THEN 0
                 ELSE IF exponent[1] = "-" THEN 0 - DecimalValue(Tail(exponent))
                 ELSE DecimalValue(Unsigned(exponent))
        magnitude == Normalized(DecimalValue(digits), shift - places)
    IN  IF body = <<"n", "a", "n">> THEN <<"float", "nan", 0, 0>>
        ELSE IF body \in {<<"i", "n", "f">>, <<"i", "n", "f", "i", "n", "i", "t", "y">>}
        THEN <<"float", "inf", sign, 0>>
        ELSE IF IsDecimal(decimal) /\ (marks = {} \/ IsExponent(exponent))
        THEN IF magnitude[2] = 0 THEN <<"float", sign * magnitude[1]>>
             ELSE <<"float", "fraction", sign * magnitude[1], magnitude[2]>>
        ELSE <<"none">>

\* NumericLiteral(position, value) with the value of parse_float
NumericLiteralOf(float) ==
    IF Len(float) = 2 THEN NumericLiteral(float[2])
    ELSE <<"NumericLiteral", float[2], float[3], float[4]>>

\* Rhs._assert_end_of_statement, called after the token of node was taken
\* from the stream: node and the stream position afterwards, or the exception
assert_end_of_statement(node, tokens, j, collection_argument) ==
    IF collection_argument THEN <<"ok", node, j>>
    ELSE IF j > Len(tokens) THEN Stop(j)
    ELSE IF is_symbol(tokens[j], "right_curly_brace") \/ is_symbol(tokens[j], "right_square_bracket")
    THEN <<"ok", node, j>>
    ELSE IF is_symbol(tokens[j], "end_of_statement") THEN <<"ok", node, j + 1>>
    ELSE JsonMapSyntaxError(tokens[j][2])

RECURSIVE parse(_, _, _, _)
\* the parse functions of ast.py; what names the function, arg holds its
\* further arguments and the list it has built so far
\*   "assemble"   assemble and consume_statement,   arg = <<inner_scope, statements>>
\*   "statement"  _consume_statement and Lhs.parse, arg = inner_scope
\*   "rhs"        Rhs.parse,                        arg = collection_argument
\*   "array"      Array.parse,                      arg = values
\*   "bind"       Bind.parse,                       arg = position
\*   "map"        Map.parse,                        arg = position
\*   "zip"        Zip.parse and _parse_zip_args,    arg = <<position, sources>>
parse(what, tokens, j, arg) ==
    CASE what = "assemble" ->
            LET statement == parse("statement", tokens, j, arg[1])
            IN  IF IsStop(statement) THEN <<"ok", arg[2], statement[2]>>
                ELSE IF IsRaise(statement) THEN statement
                ELSE parse("assemble", tokens, statement[3], <<arg[1], Append(arg[2], statement[2])>>)
      [] what = "statement" ->
            IF j > Len(tokens) THEN Stop(j)
            ELSE IF is_symbol(tokens[j], "right_curly_brace")
            THEN IF arg THEN Stop(j + 1) ELSE JsonMapSyntaxError(tokens[j][2])
            ELSE IF tokens[j][1] \in {"BareWord", "LiteralToken"}
            THEN IF j + 1 > Len(tokens) THEN Stop(j + 1)
                 ELSE IF ~is_symbol(tokens[j + 1], "assignment") THEN JsonMapSyntaxError(tokens[j + 1][2])
                 ELSE LET rhs == parse("rhs", tokens, j + 2, FALSE)
                      IN  IF IsOk(rhs) THEN <<"ok", Statement(NamedLhs(tokens[j][3]), rhs[2]), rhs[3]>>
                          ELSE rhs
            ELSE IF is_symbol(tokens[j], "end_of_statement")
            THEN <<"ok", Statement(NoOpLhs, NoOpRhs), j + 1>>
            ELSE JsonMapSyntaxError(tokens[j][2])
      [] what = "rhs" ->
            IF j > Len(tokens) THEN Stop(j)
            ELSE LET token == tokens[j]
                 IN  CASE token[1] = "LiteralToken" ->
                             assert_end_of_statement(ValueLiteral(token[3]), tokens, j + 1, FALSE)
                       [] token[1] = "ListIndexReferenceToken" ->
                             assert_end_of_statement(ListIndexReference(token[3], token[4]), tokens, j + 1, arg)
                       [] token[1] = "ReferenceToken" ->
                             assert_end_of_statement(Reference(token[3], token[4]), tokens, j + 1, arg)
                       [] is_symbol(token, "left_curly_brace") ->
                             LET statements == parse("assemble", tokens, j + 1, <<TRUE, <<>>>>)
                             IN  IF IsOk(statements)
                                 THEN <<"ok", Scope(StatementList(statements[2])), statements[3]>>
                                 ELSE statements
                       [] token[1] = "BareWord" /\ token[3] = <<"n", "u", "l", "l">> ->
                             assert_end_of_statement(NoOpRhs, tokens, j + 1, FALSE)
                       [] token[1] = "BareWord" /\ token[3] # <<"n", "u", "l", "l">> ->
                             LET Word(float) ==
                                     IF float # <<"none">>
                                     THEN <<"ok", NumericLiteralOf(float), j + 1>>
                                     ELSE IF token[3] = <<"b", "i", "n", "d">>
                                     THEN parse("bind", tokens, j + 1, token[2])
                                     ELSE IF token[3] = <<"m", "a", "p">>
                                     THEN parse("map", tokens, j + 1, token[2])
                                     ELSE IF token[3] = <<"z", "i", "p">>
                                     THEN parse("zip", tokens, j + 1, <<token[2], <<>>>>)
                                     ELSE JsonMapSyntaxError(token[2])
                             IN  Word(parse_float(token[3]))
                       [] is_symbol(token, "left_square_bracket") -> parse("array", tokens, j + 1, <<>>)
                       [] OTHER -> JsonMapSyntaxError(token[2])
      [] what = "array" ->
            IF j > Len(tokens) THEN Stop(j)
            ELSE IF is_symbol(tokens[j], "right_square_bracket") THEN <<"ok", Array(arg), j + 1>>
            ELSE LET value == parse("rhs", tokens, j, FALSE)
                 IN  IF ~IsOk(value) THEN value
                     ELSE IF value[3] > Len(tokens) THEN Stop(value[3])
                     ELSE parse("array", tokens,
                                IF is_symbol(tokens[value[3]], "end_of_statement")
                                THEN value[3] + 1 ELSE value[3],
                                Append(arg, value[2]))
      [] what = "bind" ->
            LET reference == parse("rhs", tokens, j, TRUE)
            IN  IF ~IsOk(reference) THEN reference
                ELSE IF ~IsReference(reference[2]) THEN JsonMapSyntaxError(arg)
                ELSE IF reference[3] > Len(tokens) THEN Stop(reference[3])
                ELSE IF ~is_symbol(tokens[reference[3]], "left_curly_brace")
                THEN JsonMapSyntaxError(tokens[reference[3]][2])
                ELSE IF reference[3] + 1 > Len(tokens) THEN Stop(reference[3] + 1)
                ELSE LET statements == parse("assemble", tokens, reference[3] + 1, <<TRUE, <<>>>>)
                     IN  IF IsOk(statements)
                         THEN <<"ok", Bind(StatementList(statements[2]), reference[2]), statements[3]>>
                         ELSE statements
      [] what = "map" ->
            LET source == parse("rhs", tokens, j, TRUE)
            IN  IF ~IsOk(source) THEN source
                ELSE IF ~(source[2][1] = "Array" \/ IsReference(source[2])) THEN JsonMapSyntaxError(arg)
                ELSE IF source[3] > Len(tokens) THEN Stop(source[3])
                ELSE IF is_symbol(tokens[source[3]], "left_curly_brace")
                THEN IF source[3] + 1 > Len(tokens) THEN Stop(source[3] + 1)
                     ELSE LET statements == parse("assemble", tokens, source[3] + 1, <<TRUE, <<>>>>)
                          IN  IF IsOk(statements)
                              THEN <<"ok", Map(StatementList(statements[2]), source[2]), statements[3]>>
                              ELSE statements
                ELSE IF is_symbol(tokens[source[3]], "left_square_bracket")
                THEN LET array == parse("array", tokens, source[3] + 1, <<>>)
                     IN  IF ~IsOk(array) THEN array
                         ELSE IF Len(array[2][2]) # 1 THEN Raise("ValueError")
                         ELSE <<"ok", Map(OneStatement(Statement(AnonymousLhs, array[2][2][1])), source[2]),
                                array[3]>>
                ELSE Raise("UnboundLocalError")
      [] what = "zip" ->
            IF j > Len(tokens) THEN Stop(j)
            ELSE IF is_symbol(tokens[j], "left_curly_brace")
            THEN IF j + 1 > Len(tokens) THEN Stop(j + 1)
                 ELSE LET statements == parse("assemble", tokens, j + 1, <<TRUE, <<>>>>)
                      IN  IF IsOk(statements)
                          THEN <<"ok", Zip(StatementList(statements[2]), arg[2]), statements[3]>>
                          ELSE statements
            ELSE LET source == parse("rhs", tokens, j, TRUE)
                 IN  IF ~IsOk(source) THEN source
                     ELSE IF ~(source[2][1] = "Array" \/ IsReference(source[2]))
                     THEN JsonMapSyntaxError(arg[1])
                     ELSE parse("zip", tokens, source[3], <<arg[1], Append(arg[2], source[2])>>)

\* assemble(peekable(program_tokens))
assemble(tokens) == parse("assemble", tokens, 1, <<FALSE, <<>>>>)

\* error.handle and get_error_position: the line and the column of the
\* error are counted by walking the program up to the position, which runs
\* off the end of a program that is shorter
handle(syntax_error, program_text) ==
    IF syntax_error[3] > Len(program_text) THEN StopIteration ELSE syntax_error

\* JsonMapping.__init__: the statements as <<"ok", statements>>, or the
\* exception that leaves the constructor
JsonMapping(program_text) ==
    LET Handled(statements) ==
            IF IsRaise(statements)
            THEN IF statements[2] = "JsonMapSyntaxError" THEN handle(statements, program_text)
                 ELSE statements
            ELSE <<"ok", statements[2]>>
        Assembled(program_tokens) ==
            Handled(IF IsRaise(program_tokens) THEN program_tokens
                    ELSE assemble(program_tokens[2]))
    IN  Assembled(tokenize(program_text))

(***************************************************************************)
(* In-place updates.  The evaluator builds new lists and dicts everywhere  *)
(* except in Zip.evaluate, where operator.ior updates the accumulator of   *)
(* reduce in place.  Objects of the input are told apart by the path that  *)
(* leads to them from the universe; <<"fresh">> stands for an object that  *)
(* was built during the evaluation.                                        *)
(***************************************************************************)
Fresh == <<"fresh">>

RECURSIVE Store(_, _, _)
\* the object with the value at the path replaced
Store(obj, path, value) ==
    IF path = <<>> THEN value
    ELSE LET field == Head(path)
         IN  IF IsDict(obj)
             THEN Obj(DictSet(Items(obj), field, Store(DictGet(Items(obj), field), Tail(path), value)))
             ELSE LET k == ToInt(field)[2]
                      position == IF k >= 0 THEN k + 1 ELSE Len(Items(obj)) + k + 1
                  IN  Arr([i \in DOMAIN Items(obj) |->
                              IF i = position THEN Store(Items(obj)[i], Tail(path), value)
                              ELSE Items(obj)[i]])

\* reduce without its third argument: the first scope is the accumulator
ReduceInitialFirstScope(scope_paths) ==
    IF scope_paths = <<>> THEN Fresh ELSE scope_paths[1]

\* reduce(operator.ior, scopes, {}): the accumulator that is updated in place
\* is the new dict given as third argument
ReduceInitial(scope_paths) == Fresh

\* where the elements that a zip argument contributes live: elements of an
\* array of the input that are used as they are keep their place in the
\* input, wrapped elements and elements of array literals are new objects
ElementPaths(source, path, to_zip) ==
    [i \in DOMAIN Iterate(to_zip) |->
        IF /\ IsReference(source) /\ path # Fresh /\ IsList(to_zip)
           /\ \A j \in DOMAIN Items(to_zip) : IsDict(Items(to_zip)[j])
        THEN path \o source[2] \o <<IKey(i - 1)>>
        ELSE Fresh]

RECURSIVE StoreMerged(_, _, _, _)
\* the universe after the merged scopes of a zip have been reduced, position
\* by position
StoreMerged(universe, element_paths, merged, i) ==
    IF i > Len(merged) THEN universe
    ELSE LET accumulator == ReduceInitial([k \in DOMAIN element_paths |-> element_paths[k][i]])
         IN  StoreMerged(IF accumulator = Fresh THEN universe
                         ELSE Store(universe, accumulator, merged[i]),
                         element_paths, merged, i + 1)

RECURSIVE UniverseAfter(_, _, _)
\* the universe after node has been evaluated in the scope found at path
UniverseAfter(node, path, universe) ==
    IF path = Fresh THEN universe
    ELSE
    CASE node[1] = "Statement" ->
            IF node[2][1] = "NoOpLhs" THEN universe ELSE UniverseAfter(node[3], path, universe)
      [] node[1] = "list" ->
            IF node[2] = <<>> THEN universe
            ELSE IF IsRaise(evaluate(Head(node[2]), resolve(path, universe), universe))
            THEN UniverseAfter(Head(node[2]), path, universe)
            ELSE UniverseAfter(<<"list", Tail(node[2])>>, path,
                               UniverseAfter(Head(node[2]), path, universe))
      [] node[1] = "one" -> UniverseAfter(node[2], path, universe)
      [] node[1] = "Array" -> UniverseAfter(<<"list", [i \in DOMAIN node[2] |->
                                  Statement(AnonymousLhs, node[2][i])]>>, path, universe)
      [] node[1] = "Scope" -> UniverseAfter(node[2], path, universe)
      [] node[1] = "Bind" ->
            IF IsRaise(BindScope(node[3], resolve(path, universe))) THEN universe
            ELSE UniverseAfter(node[2], path \o node[3][2], universe)
      [] node[1] = "Map" ->
            LET Mapped(to_map) ==
                    IF IsRaise(to_map) \/ ~IsReference(node[3]) \/ ~IsList(to_map) THEN universe
                    ELSE UniverseAfter(<<"items", node[2], path \o node[3][2], 1, Len(Items(to_map))>>,
                                       path, universe)
                Source(scope) == Mapped(collate(node[3], scope, evaluate(node[3], scope, universe)))
            IN  Source(resolve(path, universe))
      [] node[1] = "items" ->
            \* the body of a map, for the items from position node[4] on
            LET item_path == node[3] \o <<IKey(node[4] - 1)>>
            IN  IF node[4] > node[5] THEN universe
                ELSE IF IsRaise(evaluate(node[2], resolve(item_path, universe), universe))
                THEN UniverseAfter(node[2], item_path, universe)
                ELSE UniverseAfter(<<"items", node[2], node[3], node[4] + 1, node[5]>>, path,
                                   UniverseAfter(node[2], item_path, universe))
      [] node[1] = "Zip" ->
            LET Zipped(resolved) ==
                    IF IsRaise(FirstRaise(resolved)) THEN universe
                    ELSE StoreMerged(universe,
                                     [k \in DOMAIN resolved |-> ElementPaths(node[3][k], path, resolved[k])],
                                     ZipScopes(resolved), 1)
                Sources(scope) ==
                    Zipped([k \in DOMAIN node[3] |->
                               collate(node[3][k], scope, evaluate(node[3][k], scope, universe))])
            IN  Sources(resolve(path, universe))
      [] OTHER -> universe

(***************************************************************************)
(* The programs and input documents the model is run on.  Programs are the *)
(* trees the parser builds for the source shown in the comments.           *)
(***************************************************************************)
tA == <<"a">>

tB == <<"b">>

tX == <<"x">>

tY == <<"y">>

tQ == <<"q">>

tN == <<"n">>

tM == <<"m">>

tV == <<"v">>

tW == <<"w">>

tG == <<"g">>

t0 == <<"0">>

t1 == <<"1">>

tNeg1 == <<"-", "1">>

\* all sequences over S of length 0..len
RECURSIVE SeqsUpTo(_, _)
SeqsUpTo(S, len) ==
    IF len = 0 THEN {<<>>}
    ELSE LET shorter == SeqsUpTo(S, len - 1)
         IN  shorter \cup {Append(t, e) : t \in shorter, e \in S}

\* the elements the arrays of the input are made of
Elems ==
    { Num(1),
      Obj(<< <<SKey(tX), Num(1)>>, <<SKey(tB), Arr(<< Obj(<< <<SKey(tX), Num(5)>> >>) >>)>> >>),
      Obj(<< <<SKey(t0), Num(3)>>, <<SKey(tX), Num(4)>>, <<SKey(tY), Null>> >>) }

ValuesA ==
    {Arr(t) : t \in SeqsUpTo(Elems, MaxLen)}
        \cup { Obj(<< <<SKey(tX), Obj(<< <<SKey(tX), Num(1)>> >>)>>,
                      <<SKey(tY), Obj(<< <<SKey(tX), Num(2)>> >>)>> >>) }

ValuesB ==
    { Arr(<< Obj(<< <<SKey(t0), Num(8)>>, <<SKey(tX), Num(6)>> >>) >>),
      Arr(<< Obj(<< <<SKey(tY), Num(7)>> >>), Str(<<"s">>) >>),
      Obj(<< <<SKey(tX), Num(9)>>, <<SKey(tA), Str(<<"t">>)>> >>) }

\* the input documents: {"a": ..., "b": ...}
Documents == {Obj(<< <<SKey(tA), va>>, <<SKey(tB), vb>> >>) : va \in ValuesA, vb \in ValuesB}

Named(name, rhs) == Statement(NamedLhs(name), rhs)

Ref(texts) == Reference([i \in DOMAIN texts |-> SKey(texts[i])], FALSE)

GlobalRef(texts) == Reference([i \in DOMAIN texts |-> SKey(texts[i])], TRUE)

\* n = &p;  and  n = &?...;
TopPaths ==
    {<<>>} \cup {<<h>> \o t : h \in {tA, tB, tX}, t \in SeqsUpTo({tX, tY, tB, t0, t1, tNeg1}, 2)}

ReferencePrograms ==
    {<<Named(tN, Ref(p))>> : p \in TopPaths}
        \cup {<<Named(tN, ListIndexReference(p, FALSE))>> :
                 p \in {<<>>, <<IKey(0)>>, <<SKey(tA), IKey(0)>>, <<SKey(tA), IKey(-1)>>, <<SKey(tA), IKey(2)>>}}

\* the statements used as bodies of scopes and collection operations
BodyStatements ==
    { Named(tV, Ref(<<tX>>)), Named(tV, Ref(<<t0>>)), Named(tW, Ref(<<tB>>)), Named(tW, Ref(<<tY>>)),
      Named(tW, Ref(<<t0>>)), Named(tV, ListIndexReference(<<>>, FALSE)),
      Named(tV, ListIndexReference(<<IKey(0)>>, FALSE)),
      Named(tW, ListIndexReference(<<IKey(1)>>, FALSE)), Named(tG, GlobalRef(<<tB>>)),
      Named(tW, ValueLiteral(<<"s">>)) }

Bodies ==
    {<<>>} \cup {<<s>> : s \in BodyStatements}
        \cup {<<s1, s2>> :
                 s1 \in {Named(tV, Ref(<<tX>>)), Named(tV, ListIndexReference(<<IKey(0)>>, FALSE)),
                         Named(tG, GlobalRef(<<tB>>))},
                 s2 \in {Named(tW, Ref(<<tB>>)), Named(tW, Ref(<<tY>>)), Named(tW, Ref(<<t0>>)),
                         Named(tW, ListIndexReference(<<IKey(1)>>, FALSE)), Named(tV, Ref(<<t0>>))}}

\* n = bind &r { body }  and  n = bind &r1 { m = bind &r2 { body }; w = &x }
BindPrograms ==
    {<<Named(tN, Bind(StatementList(body), r))>> :
        body \in Bodies, r \in {Ref(<<tA>>), Ref(<<tB>>), Ref(<<tA, t0>>), Ref(<<tA, t1>>)}}
        \cup
    {<<Named(tN, Bind(StatementList(<<Named(tM, Bind(StatementList(body), r2)), Named(tW, Ref(<<tX>>))>>), r1))>> :
        body \in {<<Named(tV, Ref(<<tX>>))>>, <<Named(tG, GlobalRef(<<tA>>)), Named(tV, Ref(<<tY>>))>>},
        r1 \in {Ref(<<tA>>), Ref(<<tA, t1>>)},
        r2 \in {Ref(<<tX>>), Ref(<<tB, t0>>), Ref(<<tY>>)}}

\* the arguments of map and zip: references and array literals
Sources ==
    { Ref(<<tA>>), Ref(<<tB>>), Ref(<<tA, t0>>),
      Array(<<Ref(<<tA>>), Ref(<<tB>>)>>),
      Array(<<NumericLiteral(2), Scope(StatementList(<<Named(tX, Ref(<<tB>>))>>))>>) }

\* the single right-hand side of the bracket form  map source [ rhs ]
BracketBodies ==
    { Ref(<<tX>>), ListIndexReference(<<>>, FALSE), ValueLiteral(<<"s">>), NoOpRhs,
      Scope(StatementList(<<Named(tV, Ref(<<tX>>))>>)),
      Scope(StatementList(<<Named(tV, ListIndexReference(<<>>, FALSE)), Named(tG, GlobalRef(<<tB>>))>>)) }

MapContents ==
    {StatementList(body) : body \in Bodies}
        \cup {OneStatement(Statement(AnonymousLhs, rhs)) : rhs \in BracketBodies}

\* n = map source { body }  and  n = map source [ rhs ]
MapPrograms == {<<Named(tN, Map(contents, source))>> : contents \in MapContents, source \in Sources}

ZipSources ==
    { <<>>, <<Ref(<<tA>>)>>, <<Ref(<<tB>>)>>, <<Ref(<<tA>>), Ref(<<tB>>)>>, <<Ref(<<tB>>), Ref(<<tA>>)>>,
      <<Ref(<<tA>>), Ref(<<tA>>)>>,
      <<Ref(<<tA>>), Array(<<NumericLiteral(2), Ref(<<tB>>)>>)>>,
      <<Array(<<Scope(StatementList(<<Named(tX, Ref(<<tB>>))>>))>>), Ref(<<tB>>)>>,
      <<Ref(<<tB>>), Ref(<<tA>>), Ref(<<tB>>)>> }

\* n = zip source ... { body }
ZipPrograms == {<<Named(tN, Zip(StatementList(body), sources))>> : body \in Bodies, sources \in ZipSources}

\* the constructs a statement can be nested in: each takes the statement list
\* of its body (the bracket form of map holds it in an inline scope)
Nest(kind, body) ==
    CASE kind = "scope" -> Scope(StatementList(body))
      [] kind = "bindA" -> Bind(StatementList(body), Ref(<<tA, t0>>))
      [] kind = "bindB" -> Bind(StatementList(body), Ref(<<tB, t0>>))
      [] kind = "mapA" -> Map(StatementList(body), Ref(<<tA>>))
      [] kind = "mapB" -> Map(StatementList(body), Ref(<<tB>>))
      [] kind = "mapBracket" -> Map(OneStatement(Statement(AnonymousLhs, Scope(StatementList(body)))), Ref(<<tA>>))
      [] kind = "zipAB" -> Zip(StatementList(body), <<Ref(<<tA>>), Ref(<<tB>>)>>)

NestKinds == {"scope", "bindA", "bindB", "mapA", "mapB", "mapBracket", "zipAB"}

GlobalStatements ==
    {Named(tG, GlobalRef(p)) : p \in {<<tA>>, <<tB>>, <<tB, t0>>}}

\* n = outer { w = &x; m = inner { g = &!p; v = &x } }
NestedPrograms ==
    {<<Named(tN, Nest(k1, <<Named(tW, Ref(<<tX>>)), Named(tM, Nest(k2, <<s, Named(tV, Ref(<<tX>>))>>))>>))>> :
        k1 \in NestKinds, k2 \in NestKinds, s \in GlobalStatements}
        \cup {<<Named(tN, Nest(k1, <<s>>))>> : k1 \in NestKinds, s \in GlobalStatements}

\* the elements of array literals: null, a number, a string, references, a
\* nested array and an inline scope
ArrayElements ==
    { NoOpRhs, NumericLiteral(2), ValueLiteral(<<"s">>), Ref(<<tA>>), Ref(<<tB, t0>>),
      Array(<<NoOpRhs, Ref(<<tA>>)>>), Scope(StatementList(<<Named(tV, Ref(<<tA>>))>>)) }

\* n = [ element, ... ]
ArrayPrograms == {<<Named(tN, Array(elements))>> : elements \in SeqsUpTo(ArrayElements, MaxLen)}

\* programs of several statements, with stray terminators and repeated names
TopStatements ==
    { Statement(NoOpLhs, NoOpRhs), Named(tN, Ref(<<tA>>)), Named(tN, ValueLiteral(<<"s">>)),
      Named(tM, NoOpRhs), Named(tM, Ref(<<tB, t0>>)), Named(tV, NumericLiteral(2)) }

StatementPrograms == SeqsUpTo(TopStatements, MaxLen)

Programs ==
    ReferencePrograms \cup BindPrograms \cup MapPrograms \cup ZipPrograms
        \cup NestedPrograms \cup StatementPrograms \cup ArrayPrograms

(***************************************************************************)
(* JsonMapping.apply as a state machine: one step per statement of the     *)
(* loop, then the return; an exception raised by a statement ends it.      *)
(***************************************************************************)
VARIABLES source_text, program, data, output, index, result

vars == <<source_text, program, data, output, index, result>>

\* the statements of the mapping are given, no program text is held
NoSource == <<"none">>

Pending == <<"pending">>

Init ==
    /\ source_text = NoSource
    /\ program \in Programs
    /\ data \in Documents
    /\ output = <<>>
    /\ index = 0
    /\ result = Pending

\* one iteration of the loop: the statement yields an entry or nothing
ApplyStatement ==
    /\ result = Pending
    /\ index < Len(program)
    /\ LET Yielded(entry) ==
               /\ ~IsRaise(entry)
               /\ output' = IF entry = NoEntry THEN output ELSE DictSet(output, entry[2], entry[3])
       IN  Yielded(evaluate(program[index + 1], data, data))
    /\ data' = UniverseAfter(program[index + 1], <<>>, data)
    /\ index' = index + 1
    /\ UNCHANGED <<source_text, program, result>>

\* one iteration of the loop: the statement raises, apply is left with the exception
ApplyRaise ==
    /\ result = Pending
    /\ index < Len(program)
    /\ LET Raised(entry) ==
               /\ IsRaise(entry)
               /\ result' = entry
       IN  Raised(evaluate(program[index + 1], data, data))
    /\ data' = UniverseAfter(program[index + 1], <<>>, data)
    /\ UNCHANGED <<source_text, program, output, index>>

\* return output
ApplyReturn ==
    /\ result = Pending
    /\ index = Len(program)
    /\ result' = Obj(output)
    /\ UNCHANGED <<source_text, program, data, output, index>>

Next == ApplyStatement \/ ApplyRaise \/ ApplyReturn

Spec == Init /\ [][Next]_vars

(***************************************************************************)
(* Compiling: JsonMapping(program) (jsonmap/parser.py).  source_text is    *)
(* the program text a mapping is made from; a run compiles it and applies  *)
(* the mapping to the document.  Before the constructor has run the result *)
(* is Uncompiled; the constructor leaves the statements in program, or it  *)
(* leaves the caller with an exception and program stays empty.            *)
(***************************************************************************)
Uncompiled == <<"uncompiled">>

\* the assignment symbol as it is written in the sources
Assignments == {<<" ", "=", " ">>, <<"=">>, <<":">>}

Terminators == {<<";">>, <<",">>}

\* 1    "x;y=,"    &a
SimpleRhs == {<<"1">>, <<"\"", "x", ";", "y", "=", ",", "\"">>, <<"&", "a">>}

\* a = 1;   a="x;y=,";   a:&a;   ...  and   a = 1,   ...
SimpleStatements ==
    {<<"a">> \o assignment \o rhs \o <<";">> : assignment \in Assignments, rhs \in SimpleRhs}
        \cup {<<"a", " ", "=", " ">> \o rhs \o <<",">> : rhs \in SimpleRhs}

CompoundStatements ==
    { \* n = {v = &a;};
      <<"n", " ", "=", " ", "{", "v", " ", "=", " ", "&", "a", ";", "}", ";">>,
      \* n = [&a, null];
      <<"n", " ", "=", " ", "[", "&", "a", ",", " ", "n", "u", "l", "l", "]", ";">>,
      \* n = bind &b {v = &0};
      <<"n", " ", "=", " ", "b", "i", "n", "d", " ", "&", "b", " ", "{", "v", " ", "=", " ", "&", "0", "}", ";">>,
      \* n = map &b {v = &x;};
      <<"n", " ", "=", " ", "m", "a", "p", " ", "&", "b", " ", "{", "v", " ", "=", " ", "&", "x", ";", "}", ";">>,
      \* n = map &b [&?];
      <<"n", " ", "=", " ", "m", "a", "p", " ", "&", "b", " ", "[", "&", "?", "]", ";">>,
      \* n = map &b [];
      <<"n", " ", "=", " ", "m", "a", "p", " ", "&", "b", " ", "[", "]", ";">>,
      \* n = map &b [&?, &?];
      <<"n", " ", "=", " ", "m", "a", "p", " ", "&", "b", " ", "[", "&", "?", ",", " ", "&", "?", "]", ";">>,
      \* ;
      <<";">> }

StatementTexts == SimpleStatements \cup CompoundStatements

RECURSIVE Concat(_)
\* the texts of the list, one after the other
Concat(texts) == IF texts = <<>> THEN <<>> ELSE Head(texts) \o Concat(Tail(texts))

\* the sources: up to MaxStatements statements, of which the last one may be
\* a compound statement, and every beginning of a statement
SourceTexts ==
    {Concat(texts) \o last :
        texts \in SeqsUpTo(SimpleStatements, MaxStatements - 1),
        last \in StatementTexts \cup {<<>>}}
        \cup UNION {{SubSeq(text, 1, k) : k \in 0..Len(text)} : text \in StatementTexts}

\* {"a": [1], "b": [{"0": 8, "x": 6}]}  and
\* {"a": {"x": {"x": 1}, "y": {"x": 2}}, "b": [{"y": 7}, "s"]}
CompileDocuments ==
    { Obj(<< <<SKey(tA), Arr(<<Num(1)>>)>>,
             <<SKey(tB), Arr(<< Obj(<< <<SKey(t0), Num(8)>>, <<SKey(tX), Num(6)>> >>) >>)>> >>),
      Obj(<< <<SKey(tA), Obj(<< <<SKey(tX), Obj(<< <<SKey(tX), Num(1)>> >>)>>,
                               <<SKey(tY), Obj(<< <<SKey(tX), Num(2)>> >>)>> >>)>>,
             <<SKey(tB), Arr(<< Obj(<< <<SKey(tY), Num(7)>> >>), Str(<<"s">>) >>)>> >>) }

CompileInit ==
    /\ source_text \in SourceTexts
    /\ program = <<>>
    /\ data \in CompileDocuments
    /\ output = <<>>
    /\ index = 0
    /\ result = Uncompiled

\* JsonMapping(program): the constructor returns, the statements are set
Compile ==
    /\ result = Uncompiled
    /\ LET Constructed(mapping) ==
               /\ ~IsRaise(mapping)
               /\ program' = mapping[2]
       IN  Constructed(JsonMapping(source_text))
    /\ result' = Pending
    /\ UNCHANGED <<source_text, data, output, index>>

\* JsonMapping(program): the constructor is left with an exception
CompileRaise ==
    /\ result = Uncompiled
    /\ LET Left(mapping) ==
               /\ IsRaise(mapping)
               /\ result' = mapping
       IN  Left(JsonMapping(source_text))
    /\ UNCHANGED <<source_text, program, data, output, index>>

CompileNext == Compile \/ CompileRaise \/ ApplyStatement \/ ApplyRaise \/ ApplyReturn

CompileSpec == CompileInit /\ [][CompileNext]_vars

\* the constructor was left with an exception
CompileFailed == IsRaise(result) /\ program = <<>>

\* the run is over: the constructor failed, or apply has returned or failed
Finished == result # Uncompiled /\ result # Pending

RECURSIVE ApplyFrom(_, _, _)
\* JsonMapping.apply: the loop over the statements from output out on
ApplyFrom(statements, document, out) ==
    IF statements = <<>> THEN Obj(out)
    ELSE LET entry == evaluate(Head(statements), document, document)
         IN  IF IsRaise(entry) THEN entry
             ELSE ApplyFrom(Tail(statements), UniverseAfter(Head(statements), <<>>, document),
                            IF entry = NoEntry THEN out ELSE DictSet(out, entry[2], entry[3]))

\* JsonMapping(text).apply(document): <<"compile", exception>> when the
\* constructor fails, else <<"apply", what apply returns or raises>>
Run(text, document) ==
    LET mapping == JsonMapping(text)
    IN  IF IsRaise(mapping) THEN <<"compile", mapping>>
        ELSE <<"apply", ApplyFrom(mapping[2], document, <<>>)>>

\* what the run of the state has come to
Outcome == IF CompileFailed THEN <<"compile", result>> ELSE <<"apply", result>>

TypeOK ==
    /\ index \in 0..Len(program)
    /\ result = Pending \/ IsRaise(result) \/ IsDict(result)

(***************************************************************************)
(* What apply is seen to do with statement k of the program: the exception *)
(* it left apply with, or the value it put under its name in the returned  *)
(* object (when no later statement has put another value there).           *)
(***************************************************************************)
IsNamed(statement) == statement[2][1] = "Lhs"

NameKey(statement) == SKey(statement[2][2])

\* statement j of the list is named and no later statement of the list has its name
LastOfName(statements, j) ==
    /\ IsNamed(statements[j])
    /\ \A later \in (j + 1)..Len(statements) :
           ~(IsNamed(statements[later]) /\ NameKey(statements[later]) = NameKey(statements[j]))

Returned == IsDict(result)

RaisedAt(k) == IsRaise(result) /\ index = k - 1

Observable(k) == RaisedAt(k) \/ (Returned /\ LastOfName(program, k))

Observed(k) == IF RaisedAt(k) THEN result ELSE DictGet(Items(result), NameKey(program[k]))

(***************************************************************************)
(* Walking a path as the specification describes it, for paths of field    *)
(* names and decimal array indices: on an object the segment is the key,   *)
(* on an array the segment is the decimal text of the position.            *)
(***************************************************************************)
RECURSIVE NatText(_)
\* the decimal text of a natural number
NatText(i) == IF i < 10 THEN <<Digits[i + 1]>> ELSE Append(NatText(i \div 10), Digits[(i % 10) + 1])

StepDefined(value, segment) ==
    /\ segment[1] = "s"
    /\ \/ IsDict(value) /\ \E pair \in DOMAIN Items(value) : Items(value)[pair][1] = segment
       \/ IsList(value) /\ \E position \in 1..Len(Items(value)) : NatText(position - 1) = segment[2]

Step(value, segment) ==
    IF IsDict(value)
    THEN Items(value)[CHOOSE pair \in DOMAIN Items(value) : Items(value)[pair][1] = segment][2]
    ELSE Items(value)[CHOOSE position \in 1..Len(Items(value)) : NatText(position - 1) = segment[2]]

RECURSIVE Walks(_, _)
Walks(value, path) ==
    path = <<>> \/ (StepDefined(value, Head(path)) /\ Walks(Step(value, Head(path)), Tail(path)))

RECURSIVE Walk(_, _)
Walk(value, path) == IF path = <<>> THEN value ELSE Walk(Step(value, Head(path)), Tail(path))

IsLocalReference(node) == node[1] = "Reference" /\ ~node[3]

\* C1: a named statement whose right-hand side is a local reference with a
\* path that resolves in the input puts under its name exactly the value reached
\* by walking the path from the input segment by segment: the key on an object,
\* the decimal index on an array.
C1_ReferenceWalksPath ==
    \A k \in DOMAIN program :
        (/\ IsNamed(program[k])
         /\ IsLocalReference(program[k][3])
         /\ program[k][3][2] # <<>>
         /\ Walks(data, program[k][3][2])
         /\ Observable(k))
            => Observed(k) = Walk(data, program[k][3][2])

\* a reference through an object, an array and an object again has been applied
C1_Witness ==
    /\ Returned
    /\ program = <<Named(tN, Ref(<<tA, t1, tX>>))>>
    /\ Walks(data, program[1][3][2])
    /\ Items(result) = << <<SKey(tN), Num(4)>> >>

(***************************************************************************)
(* C2.  GlobalsResolve(node, value): in the value a node has produced,     *)
(* every place filled by a globally-marked reference holds what its path   *)
(* reaches from the input of apply.                                        *)
(***************************************************************************)
RECURSIVE GlobalsResolve(_, _)
GlobalsResolve(node, value) ==
    CASE node[1] = "Statement" -> GlobalsResolve(node[3], value)
      [] node[1] = "list" ->
            /\ IsDict(value)
            /\ \A j \in DOMAIN node[2] :
                   LastOfName(node[2], j) =>
                       /\ DictHas(Items(value), NameKey(node[2][j]))
                       /\ GlobalsResolve(node[2][j], DictGet(Items(value), NameKey(node[2][j])))
      [] node[1] \in {"one", "Scope", "Bind"} -> GlobalsResolve(node[2], value)
      [] node[1] \in {"Map", "Zip"} ->
            /\ IsList(value)
            /\ \A i \in DOMAIN Items(value) : GlobalsResolve(node[2], Items(value)[i])
      [] node[1] = "Array" ->
            /\ IsList(value)
            /\ Len(Items(value)) = Len(node[2])
            /\ \A i \in DOMAIN node[2] : GlobalsResolve(node[2][i], Items(value)[i])
      [] IsReference(node) ->
            node[3] => (Walks(data, node[2]) /\ value = Walk(data, node[2]))
      [] OTHER -> TRUE

\* C2: the universe never changes: a globally-marked reference used as a
\* statement's right-hand side yields what its path reaches from the original
\* input, at every nesting depth of inline scopes, bind, map and zip bodies.
C2_GlobalReferenceUsesUniverse ==
    \A k \in DOMAIN program :
        (Returned /\ LastOfName(program, k)) => GlobalsResolve(program[k], Observed(k))

\* a global reference two collection operations deep was evaluated in a scope
\* that has the same key as the input, with another value
C2_Witness ==
    /\ Returned
    /\ program = <<Named(tN, Nest("mapA", <<Named(tW, Ref(<<tX>>)),
                     Named(tM, Nest("mapB", <<Named(tG, GlobalRef(<<tB>>)), Named(tV, Ref(<<tX>>))>>))>>))>>
    /\ \E i \in DOMAIN Items(Observed(1)) :
           \E inner \in DOMAIN Items(DictGet(Items(Items(Observed(1))[i]), SKey(tM))) :
               DictGet(Items(Items(DictGet(Items(Items(Observed(1))[i]), SKey(tM)))[inner]), SKey(tG))
                   = DictGet(Items(data), SKey(tB))

(***************************************************************************)
(* C3.  BindHolds(node, scope, value): value is what  bind &r { body }     *)
(* must produce in the scope.                                              *)
(***************************************************************************)
\* the names of the named statements of a body, each once, in textual order
BodyKeys(statements) ==
    LET firsts == SelectSeq([j \in DOMAIN statements |-> j],
                            LAMBDA j : /\ IsNamed(statements[j])
                                       /\ \A earlier \in 1..(j - 1) :
                                              ~(IsNamed(statements[earlier])
                                                /\ NameKey(statements[earlier]) = NameKey(statements[j])))
    IN  [i \in DOMAIN firsts |-> NameKey(statements[firsts[i]])]

\* value is the object built from the name/value pairs of the body, every
\* statement evaluated in the scope and local references walking from it
BodyObject(statements, scope, value) ==
    /\ IsDict(value)
    /\ [i \in DOMAIN Items(value) |-> Items(value)[i][1]] = BodyKeys(statements)
    /\ \A j \in DOMAIN statements :
           LastOfName(statements, j) =>
               /\ DictGet(Items(value), NameKey(statements[j])) = evaluate(statements[j][3], scope, data)
               /\ (IsLocalReference(statements[j][3]) /\ Walks(scope, statements[j][3][2]))
                      => DictGet(Items(value), NameKey(statements[j])) = Walk(scope, statements[j][3][2])

BodyRaises(statements, scope) ==
    \E j \in DOMAIN statements : IsRaise(evaluate(statements[j], scope, data))

BindHolds(node, scope, value) ==
    Walks(scope, node[3][2]) =>
        LET target == Walk(scope, node[3][2])
        IN  IF ~IsDict(target) THEN IsRaise(value)
            ELSE IF BodyRaises(node[2][2], target) THEN IsRaise(value)
            ELSE BodyObject(node[2][2], target, value)

IsLocalBind(statement) ==
    IsNamed(statement) /\ statement[3][1] = "Bind" /\ IsLocalReference(statement[3][3])

\* C3: bind &r { body } resolves r in the current scope; when that is an object
\* the body's local references resolve against it and the bind's value is the
\* object of the body's name/value pairs; when it is not an object evaluation
\* fails and no value is produced.  Checked for a bind at the top level and for
\* a bind directly inside its body.
C3_BindNarrowsScope ==
    \A k \in DOMAIN program :
        (IsLocalBind(program[k]) /\ Observable(k)) =>
            /\ BindHolds(program[k][3], data, Observed(k))
            /\ (Returned /\ Walks(data, program[k][3][3][2])) =>
                   \A j \in DOMAIN program[k][3][2][2] :
                       LET body == program[k][3][2][2]
                       IN  (IsLocalBind(body[j]) /\ LastOfName(body, j)) =>
                               BindHolds(body[j][3], Walk(data, program[k][3][3][2]),
                                         DictGet(Items(Observed(k)), NameKey(body[j])))

\* a bind inside a bind has produced its object
C3_Witness ==
    /\ Returned
    /\ program = <<Named(tN, Bind(StatementList(<<Named(tM, Bind(StatementList(<<Named(tV, Ref(<<tX>>))>>),
                                                                 Ref(<<tX>>))),
                                                  Named(tW, Ref(<<tX>>))>>), Ref(<<tA>>)))>>
    /\ DictGet(Items(Observed(1)), SKey(tM)) = Obj(<< <<SKey(tV), Num(1)>> >>)

\* a bind whose reference resolves to an array has failed
C3_WitnessNotAnObject ==
    /\ RaisedAt(1)
    /\ IsLocalBind(program[1])
    /\ Walks(data, program[1][3][3][2])
    /\ IsList(Walk(data, program[1][3][3][2]))

(***************************************************************************)
(* The sequence a map or zip argument stands for when it is an array: a    *)
(* local reference that walks to an array, or an array literal whose       *)
(* elements evaluate in the current scope.                                 *)
(***************************************************************************)
IsArraySource(source, scope) ==
    \/ /\ IsLocalReference(source)
       /\ Walks(scope, source[2])
       /\ IsList(Walk(scope, source[2]))
    \/ /\ source[1] = "Array"
       /\ \A i \in DOMAIN source[2] : ~IsRaise(evaluate(source[2][i], scope, data))

SourceItems(source, scope) ==
    IF source[1] = "Array"
    THEN [i \in DOMAIN source[2] |-> evaluate(source[2][i], scope, data)]
    ELSE Items(Walk(scope, source[2]))

\* the list of the body's values, one per scope, or an exception when one raises
EachScope(contents, scopes, value) ==
    IF \E i \in DOMAIN scopes : IsRaise(evaluate(contents, scopes[i], data))
    THEN IsRaise(value)
    ELSE /\ IsList(value)
         /\ Len(Items(value)) = Len(scopes)
         /\ \A i \in DOMAIN scopes : Items(value)[i] = evaluate(contents, scopes[i], data)

IsMap(statement) == IsNamed(statement) /\ statement[3][1] = "Map"

IsZip(statement) == IsNamed(statement) /\ statement[3][1] = "Zip"

\* C4: map source { body } yields one entry per element of the source, in
\* source order, entry i being the body evaluated with element i as the scope;
\* for a reference to an array and for an array literal.
C4_MapEvaluatesBodyPerElement ==
    \A k \in DOMAIN program :
        (IsMap(program[k]) /\ IsArraySource(program[k][3][3], data) /\ Observable(k)) =>
            EachScope(program[k][3][2], SourceItems(program[k][3][3], data), Observed(k))

\* a map over a referenced array of two different objects has produced two entries
C4_Witness ==
    /\ Returned
    /\ Len(program) = 1
    /\ IsMap(program[1])
    /\ program[1][3][3] = Ref(<<tA>>)
    /\ program[1][3][2] = StatementList(<<Named(tV, Ref(<<tX>>))>>)
    /\ Observed(1) = Arr(<< Obj(<< <<SKey(tV), Num(1)>> >>), Obj(<< <<SKey(tV), Num(4)>> >>) >>)

AllObjects(items) == \A i \in DOMAIN items : IsDict(items[i])

\* the sources that hold objects and whose i-th object has the key
Holders(sequences, i, key) ==
    {s \in DOMAIN sequences : AllObjects(sequences[s]) /\ DictHas(Items(sequences[s][i]), key)}

Last(S) == CHOOSE latest \in S : \A other \in S : other <= latest

\* the right-hand side is a reference the claims speak of, and what it refers to is there
Visible(rhs, sequences, i) ==
    \/ /\ IsLocalReference(rhs) /\ Len(rhs[2]) = 1
       /\ Holders(sequences, i, rhs[2][1]) # {}
    \/ /\ rhs[1] = "ListIndexReference" /\ ~rhs[3] /\ Len(rhs[2]) = 1 /\ rhs[2][1][1] = "i"
       /\ (rhs[2][1][2] + 1) \in DOMAIN sequences
       /\ ~AllObjects(sequences[rhs[2][1][2] + 1])
    \/ /\ rhs[1] = "ListIndexReference" /\ ~rhs[3] /\ rhs[2] = <<>>
       /\ Len(sequences) = 1 /\ AllObjects(sequences[1])

Seen(rhs, sequences, i) ==
    IF rhs[1] = "Reference"
    THEN DictGet(Items(sequences[Last(Holders(sequences, i, rhs[2][1]))][i]), rhs[2][1])
    ELSE IF rhs[2] = <<>> THEN sequences[1][i]
    ELSE sequences[rhs[2][1][2] + 1][i]

\* value is the list of the objects the body builds from what it sees at each position
ZipSees(body, sequences, value) ==
    LET shortest == Min({Len(sequences[s]) : s \in DOMAIN sequences})
    IN  (\A i \in 1..shortest : \A j \in DOMAIN body :
             IsNamed(body[j]) /\ Visible(body[j][3], sequences, i))
        => value = Arr([i \in 1..shortest |->
                           Obj(DictUpdate(<<>>, [j \in DOMAIN body |->
                                   <<NameKey(body[j]), Seen(body[j][3], sequences, i)>>]))])

ZipOfArrays(k) ==
    /\ IsZip(program[k])
    /\ program[k][3][3] # <<>>
    /\ \A s \in DOMAIN program[k][3][3] : IsArraySource(program[k][3][3][s], data)

ZipSequences(k) == [s \in DOMAIN program[k][3][3] |-> SourceItems(program[k][3][3][s], data)]

\* C6: the scope of a zip at position i is the key-wise merge of the i-th
\* objects of the sources in source order: a key two sources share shows the
\* later source's value, a key of one source only is visible too.
C6_ZipLaterSourceOverrides ==
    \A k \in DOMAIN program :
        (/\ ZipOfArrays(k)
         /\ \A s \in DOMAIN ZipSequences(k) : AllObjects(ZipSequences(k)[s])
         /\ Observable(k)) =>
            ZipSees(program[k][3][2][2], ZipSequences(k), Observed(k))

\* two sources share the key x with different values and the body has read it,
\* together with a key only the first source has
C6_Witness ==
    /\ Returned
    /\ program = <<Named(tN, Zip(StatementList(<<Named(tV, Ref(<<tX>>)), Named(tW, Ref(<<tB>>))>>),
                                 <<Ref(<<tA>>), Ref(<<tB>>)>>))>>
    /\ ZipOfArrays(1)
    /\ Len(Items(Observed(1))) = 1
    /\ Items(Observed(1))[1] =
           Obj(<< <<SKey(tV), Num(6)>>, <<SKey(tW), Arr(<< Obj(<< <<SKey(tX), Num(5)>> >>) >>)>> >>)

\* C7: a source whose elements are all objects is used unchanged; otherwise
\* every element is wrapped under the integer position N of its source, &?.N
\* yields it, and the integer key N stays apart from a string key "N" of
\* another source.
C7_ZipNormalization ==
    \A k \in DOMAIN program :
        (ZipOfArrays(k) /\ Observable(k)) =>
            ZipSees(program[k][3][2][2], ZipSequences(k), Observed(k))

\* the first source holds numbers, the second objects with the key "0", and the
\* body has read both the element at &?.0 and the field "0"
C7_Witness ==
    /\ Returned
    /\ program = <<Named(tN, Zip(StatementList(<<Named(tV, ListIndexReference(<<IKey(0)>>, FALSE)),
                                                 Named(tW, Ref(<<t0>>))>>),
                                 <<Ref(<<tA>>), Ref(<<tB>>)>>))>>
    /\ ZipOfArrays(1)
    /\ Len(Items(Observed(1))) = 1
    /\ Items(Observed(1))[1] = Obj(<< <<SKey(tV), Num(1)>>, <<SKey(tW), Num(8)>> >>)

\* a single source of objects has been handed to the body unchanged
C7_WitnessUnchanged ==
    /\ Returned
    /\ program = <<Named(tN, Zip(StatementList(<<Named(tV, ListIndexReference(<<>>, FALSE))>>),
                                 <<Ref(<<tB>>)>>))>>
    /\ ZipOfArrays(1)
    /\ Len(Items(Observed(1))) = 1
    /\ DictGet(Items(Items(Observed(1))[1]), SKey(tV)) = Items(DictGet(Items(data), SKey(tB)))[1]

(***************************************************************************)
(* C8.  Map over an object.                                                *)
(***************************************************************************)
IsObjectSource(source, scope) ==
    IsLocalReference(source) /\ Walks(scope, source[2]) /\ IsDict(Walk(scope, source[2]))

ObjectValues(object) == [i \in DOMAIN Items(object) |-> Items(object)[i][2]]

\* C8: when the source reference of map resolves to an object, the values of
\* the object, in insertion order, are the elements bound as the scope.
C8_MapOverObjectValues ==
    \A k \in DOMAIN program :
        (IsMap(program[k]) /\ IsObjectSource(program[k][3][3], data) /\ Observable(k)) =>
            EachScope(program[k][3][2], ObjectValues(Walk(data, program[k][3][3][2])), Observed(k))

\* what the code does instead: the keys of the object are the elements
C8_MapOverObjectKeys ==
    \A k \in DOMAIN program :
        (IsMap(program[k]) /\ IsObjectSource(program[k][3][3], data) /\ Observable(k)) =>
            EachScope(program[k][3][2],
                      [i \in DOMAIN Items(Walk(data, program[k][3][3][2])) |->
                          Str(Items(Walk(data, program[k][3][3][2]))[i][1][2])],
                      Observed(k))

(***************************************************************************)
(* C9, C10.                                                                *)
(***************************************************************************)
IsBracketMap(statement) == IsMap(statement) /\ statement[3][2][1] = "one"

\* C9: map source [ rhs ]: every entry is the bare value of rhs evaluated with
\* the element as scope, not wrapped in an object or a list.
C9_BracketBodyYieldsBareValue ==
    \A k \in DOMAIN program :
        (IsBracketMap(program[k]) /\ IsArraySource(program[k][3][3], data) /\ Observable(k)) =>
            LET rhs == program[k][3][2][2][3]
                items == SourceItems(program[k][3][3], data)
            IN  IF \E i \in DOMAIN items : IsRaise(evaluate(rhs, items[i], data))
                THEN IsRaise(Observed(k))
                ELSE Observed(k) = Arr([i \in DOMAIN items |-> evaluate(rhs, items[i], data)])

\* bracket bodies holding a reference and an inline scope have produced bare values
C9_Witness ==
    /\ Returned
    /\ Len(program) = 1
    /\ IsBracketMap(program[1])
    /\ program[1][3][2][2][3] = Ref(<<tX>>)
    /\ program[1][3][3] = Ref(<<tA>>)
    /\ Observed(1) = Arr(<<Num(4), Num(1)>>)

IsCurrentItem(rhs) == rhs = ListIndexReference(<<>>, FALSE)

\* C10: &? evaluates to the current local scope itself: at the top level to the
\* input, inside a map over an array to the current element, for every element.
C10_EmptyListIndexIsCurrentScope ==
    \A k \in DOMAIN program :
        (IsNamed(program[k]) /\ Observable(k)) =>
            /\ IsCurrentItem(program[k][3]) => Observed(k) = data
            /\ (IsMap(program[k]) /\ IsArraySource(program[k][3][3], data)) =>
                   LET contents == program[k][3][2]
                       items == SourceItems(program[k][3][3], data)
                   IN  /\ (contents[1] = "one" /\ IsCurrentItem(contents[2][3])) =>
                              Observed(k) = Arr(items)
                       /\ (contents[1] = "list" /\ Len(contents[2]) = 1
                           /\ IsNamed(contents[2][1]) /\ IsCurrentItem(contents[2][1][3])) =>
                              Observed(k) = Arr([i \in DOMAIN items |->
                                                    Obj(<< <<NameKey(contents[2][1]), items[i]>> >>)])

\* a map over an array that holds a number has bound &? to every element
C10_Witness ==
    /\ Returned
    /\ program = <<Named(tN, Map(StatementList(<<Named(tV, ListIndexReference(<<>>, FALSE))>>), Ref(<<tA>>)))>>
    /\ IsList(DictGet(Items(data), SKey(tA)))
    /\ Len(Items(Observed(1))) = 2
    /\ Items(Observed(1))[1] = Obj(<< <<SKey(tV), Num(1)>> >>)

(***************************************************************************)
(* C11.  Array literals.                                                   *)
(***************************************************************************)
\* what an element of an array literal stands for in the scope: the constant
\* of a literal, the value a local reference walks to, and for a nested array
\* or an inline scope what evaluating it yields
ElementValue(rhs, scope, universe) ==
    CASE rhs[1] = "NoOpRhs" -> Null
      [] rhs[1] = "NumericLiteral" -> NumericLiteralEvaluate(rhs)
      [] rhs[1] = "ValueLiteral" -> Str(rhs[2])
      [] IsLocalReference(rhs) /\ Walks(scope, rhs[2]) -> Walk(scope, rhs[2])
      [] OTHER -> evaluate(rhs, scope, universe)

\* C11: an array literal evaluates to a list with one entry per element, in
\* textual order, each element evaluated against the current scope and
\* universe; a null element is kept as a null entry.
C11_ArrayLiteralKeepsEveryElement ==
    \A k \in DOMAIN program :
        (IsNamed(program[k]) /\ program[k][3][1] = "Array" /\ Observable(k)) =>
            LET values == program[k][3][2]
                entries == [i \in DOMAIN values |-> ElementValue(values[i], data, data)]
            IN  IF \E i \in DOMAIN entries : IsRaise(entries[i])
                THEN IsRaise(Observed(k))
                ELSE /\ Observed(k) = Arr(entries)
                     /\ Len(Items(Observed(k))) = Len(values)

\* an array literal holding null and a reference has been evaluated: the null
\* entry is there, followed by the referenced value
C11_Witness ==
    /\ Returned
    /\ program = <<Named(tN, Array(<<NoOpRhs, Ref(<<tB, t0>>)>>))>>
    /\ Len(Items(Observed(1))) = 2
    /\ Items(Observed(1))[1] = Null
    /\ IsDict(Items(Observed(1))[2])

(***************************************************************************)
(* C12.  Key order of the produced objects.                                *)
(***************************************************************************)
Keys(object) == [i \in DOMAIN Items(object) |-> Items(object)[i][1]]

RECURSIVE NamesInOrder(_)
\* the names of the named statements in textual order, a name that is written
\* again staying where it was written first
NamesInOrder(statements) ==
    IF statements = <<>> THEN <<>>
    ELSE LET earlier == NamesInOrder(SubSeq(statements, 1, Len(statements) - 1))
             last == statements[Len(statements)]
         IN  IF IsNamed(last) /\ ~(\E i \in DOMAIN earlier : earlier[i] = NameKey(last))
             THEN Append(earlier, NameKey(last))
             ELSE earlier

RECURSIVE KeysFollowText(_, _)
\* every object in value that was produced by a statement list of node has
\* its keys in the textual order of that list; node is a right-hand side or
\* the contents of a scope, value what it evaluated to
KeysFollowText(node, value) ==
    CASE node[1] = "list" ->
            /\ IsDict(value)
            /\ Keys(value) = NamesInOrder(node[2])
            /\ \A j \in DOMAIN node[2] :
                   LastOfName(node[2], j) =>
                       KeysFollowText(node[2][j][3], DictGet(Items(value), NameKey(node[2][j])))
      [] node[1] = "one" -> KeysFollowText(node[2][3], value)
      [] node[1] \in {"Scope", "Bind"} -> KeysFollowText(node[2], value)
      [] node[1] \in {"Map", "Zip"} ->
            /\ IsList(value)
            /\ \A i \in DOMAIN Items(value) : KeysFollowText(node[2], Items(value)[i])
      [] node[1] = "Array" ->
            /\ IsList(value)
            /\ Len(Items(value)) = Len(node[2])
            /\ \A i \in DOMAIN node[2] : KeysFollowText(node[2][i], Items(value)[i])
      [] OTHER -> TRUE

\* C12: the keys of every produced object (the output of apply, inline scopes,
\* bind results, each map and zip body result) are in the textual order of
\* the named statements that produced it.
C12_KeyOrderIsTextualOrder ==
    Returned => KeysFollowText(StatementList(program), result)

\* a bind body of two named statements has produced an object inside the output
C12_Witness ==
    /\ Returned
    /\ program = <<Named(tN, Bind(StatementList(<<Named(tV, Ref(<<tX>>)), Named(tW, Ref(<<tB>>))>>),
                                  Ref(<<tA, t0>>)))>>
    /\ Keys(Observed(1)) = <<SKey(tV), SKey(tW)>>

\* two top-level statements with different names have produced the output
C12_WitnessTopLevel ==
    /\ Returned
    /\ Len(program) = 2
    /\ Keys(result) = <<SKey(tN), SKey(tM)>>

(***************************************************************************)
(* C13.  Null values.                                                      *)
(***************************************************************************)
\* the right-hand side is null, or a local reference that walks to null in the scope
YieldsNull(rhs, scope) ==
    \/ rhs = NoOpRhs
    \/ IsLocalReference(rhs) /\ Walks(scope, rhs[2]) /\ Walk(scope, rhs[2]) = Null

\* C13: a named statement whose right-hand side is null, or a reference that
\* resolves to null in the input, puts its key into the output with the
\* value null; the key is not left out.
C13_NullIsKeptUnderItsKey ==
    \A k \in DOMAIN program :
        (Returned /\ IsNamed(program[k]) /\ YieldsNull(program[k][3], data)) =>
            /\ DictHas(Items(result), NameKey(program[k]))
            /\ LastOfName(program, k) => DictGet(Items(result), NameKey(program[k])) = Null

\* m = null;  has been applied
C13_Witness ==
    /\ program = <<Named(tM, NoOpRhs)>>
    /\ result = Obj(<< <<SKey(tM), Null>> >>)

\* n = &a.0.y;  has been applied to an input where it walks to null
C13_WitnessReference ==
    /\ program = <<Named(tN, Ref(<<tA, t0, tY>>))>>
    /\ result = Obj(<< <<SKey(tN), Null>> >>)

(***************************************************************************)
(* C14.  The input is not modified.                                        *)
(***************************************************************************)
\* C14: apply does not mutate its input: no step of apply, whether apply goes
\* on to return or to fail, changes the input document, also when elements
\* of it are merged into zip scopes or bound as bind and map scopes.
C14_ApplyDoesNotMutateInput == [][data' = data]_vars

\* a zip has merged objects of the input from two arrays, the second adding
\* keys to what the first holds, and apply has returned
C14_Witness ==
    /\ Returned
    /\ program = <<Named(tN, Zip(StatementList(<<Named(tV, Ref(<<tX>>))>>), <<Ref(<<tA>>), Ref(<<tB>>)>>))>>
    /\ IsList(DictGet(Items(data), SKey(tA)))
    /\ Len(Items(DictGet(Items(data), SKey(tA)))) >= 1
    /\ \A i \in DOMAIN Items(DictGet(Items(data), SKey(tA))) : IsDict(Items(DictGet(Items(data), SKey(tA)))[i])
    /\ Len(Items(Observed(1))) = 1
    /\ Items(Observed(1))[1] = Obj(<< <<SKey(tV), Num(6)>> >>)

(***************************************************************************)
(* C15.  Compiling a source either gives the statements or fails with a    *)
(* JsonMapSyntaxError whose position is an offset inside the source.       *)
(***************************************************************************)
IsSyntaxError(exception) == IsRaise(exception) /\ exception[2] = "JsonMapSyntaxError"

\* the exception is a syntax error at an offset of the text
IsSyntaxErrorInside(exception, text) ==
    IsSyntaxError(exception) /\ exception[3] \in 0..(Len(text) - 1)

\* C15: for every source, compile (tokenize followed by parse) returns a
\* program or fails with a JsonMapSyntaxError whose position is an offset
\* inside the source; no other kind of failure leaves the constructor
C15_CompileFailsOnlyWithOffset ==
    CompileFailed => IsSyntaxErrorInside(result, source_text)

\* the failures that do leave the constructor: the syntax errors lie inside
\* the source, the other exceptions carry no offset
C15_CompileFailures ==
    CompileFailed =>
        \/ IsSyntaxErrorInside(result, source_text)
        \/ result \in {StopIteration, Raise("ValueError"), Raise("UnboundLocalError")}

\* the source a = 1 ends without a terminator: StopIteration leaves the constructor
C15_StopIterationEscapes ==
    /\ source_text = <<"a", " ", "=", " ", "1">>
    /\ result = StopIteration

(***************************************************************************)
(* C16.  A source that ends in the middle of a statement does not compile. *)
(***************************************************************************)
IsOpening(token) == is_symbol(token, "left_curly_brace") \/ is_symbol(token, "left_square_bracket")

IsClosing(token) == is_symbol(token, "right_curly_brace") \/ is_symbol(token, "right_square_bracket")

\* a name or a value: a bare word, a string literal or a reference
IsWord(token) ==
    token[1] \in {"BareWord", "LiteralToken", "ReferenceToken", "ListIndexReferenceToken"}

\* the tokens end after a left-hand side, after an assignment symbol, after
\* a right-hand side that awaits its terminator, or inside an unclosed
\* bracket
EndsInsideStatementTokens(tokens) ==
    LET last == Len(tokens)
        opened == Cardinality({j \in DOMAIN tokens : IsOpening(tokens[j])})
        closed == Cardinality({j \in DOMAIN tokens : IsClosing(tokens[j])})
    IN  /\ tokens # <<>>
        /\ \/ opened > closed
           \/ is_symbol(tokens[last], "assignment")
           \/ /\ IsWord(tokens[last])
              /\ \/ last = 1
                 \/ is_symbol(tokens[last - 1], "end_of_statement")
                 \/ is_symbol(tokens[last - 1], "left_curly_brace")
                 \/ is_symbol(tokens[last - 1], "assignment")

\* the text can be split into tokens and ends in the middle of a statement
EndsInsideStatement(text) ==
    LET program_tokens == tokenize(text)
    IN  ~IsRaise(program_tokens) /\ EndsInsideStatementTokens(program_tokens[2])

\* C16: when the source ends in the middle of a statement (after its
\* left-hand side, after the assignment, after a right-hand side that awaits
\* its terminator, or inside an unclosed bracket), compile fails; it never
\* returns a program
C16_UnfinishedStatementIsRejected ==
    (result # Uncompiled /\ EndsInsideStatement(source_text)) => CompileFailed

\* the source a = "x;y=," ends after the right-hand side: the constructor
\* returns and the mapping has no statement
C16_StatementDiscarded ==
    /\ source_text = <<"a", " ", "=", " ", "\"", "x", ";", "y", "=", ",", "\"">>
    /\ result = Pending
    /\ program = <<>>

\* the source n = {v = &a; ends inside the scope: the constructor returns
\* the statement with the scope read so far
C16_UnclosedScopeAccepted ==
    /\ source_text = <<"n", " ", "=", " ", "{", "v", " ", "=", " ", "&", "a", ";">>
    /\ result = Pending
    /\ program = <<Named(tN, Scope(StatementList(<<Named(tV, Ref(<<tA>>))>>)))>>

(***************************************************************************)
(* C17.  A map with a bracket body that does not hold exactly one          *)
(* right-hand side is rejected with a syntax error at an offset.           *)
(***************************************************************************)
\* part occurs in text
Contains(text, part) ==
    \E first \in 1..(Len(text) - Len(part) + 1) :
        SubSeq(text, first, first + Len(part) - 1) = part

\* map &b [&?, ..., &?] with count right-hand sides in the brackets
BracketMapText(count) ==
    <<"m", "a", "p", " ", "&", "b", " ", "[">> \o Concat([i \in 1..count |-> IF i = 1 THEN <<"&", "?">> ELSE <<",", " ", "&", "?">>]) \o <<"]">>

\* the counts of right-hand sides other than one
OtherCounts == {0, 2}

HasMalformedBracketMap(text) == \E count \in OtherCounts : Contains(text, BracketMapText(count))

\* C17: a map whose bracket body holds a number of right-hand sides other
\* than one (none, or two and more) is rejected by compile with a syntax
\* error that carries an offset of the source
C17_BracketBodyCountIsSyntaxError ==
    (result # Uncompiled /\ HasMalformedBracketMap(source_text))
        => CompileFailed /\ IsSyntaxErrorInside(result, source_text)

\* what the constructor does with such a map: it is rejected, and when the
\* map is the first thing wrong with the source the exception is a ValueError
C17_BracketBodyCountIsRejected ==
    (result # Uncompiled /\ HasMalformedBracketMap(source_text)) => CompileFailed

\* n = map &b [&?, &?]; leaves the constructor with ValueError
C17_ValueErrorEscapes ==
    /\ source_text = <<"n", " ", "=", " ">> \o BracketMapText(2) \o <<";">>
    /\ result = Raise("ValueError")

\* n = map &b []; leaves the constructor with ValueError
C17_ValueErrorEscapesEmpty ==
    /\ source_text = <<"n", " ", "=", " ">> \o BracketMapText(0) \o <<";">>
    /\ result = Raise("ValueError")

(***************************************************************************)
(* C18.  ";" and "," are interchangeable outside quoted strings.           *)
(*                                                                         *)
(* The characters of a source that lie in a quoted string are those        *)
(* tokenize hands to capture_string: from a quotation mark or a backquote  *)
(* met between the tokens, or a quotation mark met between the segments of *)
(* a reference, to the delimiter that closes it.  QuotedFrom follows the   *)
(* text as tokenize, parse_reference and capture_bare_word do; its mode is *)
(* <<"tokenize">>, <<"word">>, <<"reference">>, <<"segment">> or           *)
(* <<"string", delimiter, mode to go back to>>.                            *)
(***************************************************************************)
RECURSIVE QuotedFrom(_, _, _)
\* the indices i.. of the text that lie in a quoted string
QuotedFrom(text, i, mode) ==
    IF i > Len(text) THEN {}
    ELSE LET c == text[i]
         IN  CASE mode[1] = "tokenize" ->
                     IF c \in {"\"", Backquote}
                     THEN {i} \cup QuotedFrom(text, i + 1, <<"string", c, mode>>)
                     ELSE IF c = "&" THEN QuotedFrom(text, i + 1, <<"reference">>)
                     ELSE IF IsSpace(c) \/ c \in {";", ",", "{", "}", "[", "]", "=", ":"}
                     THEN QuotedFrom(text, i + 1, mode)
                     ELSE QuotedFrom(text, i + 1, <<"word">>)
               [] mode[1] = "word" ->
                     IF c \in {" ", ":", "]", ",", ";", "}"} THEN QuotedFrom(text, i, <<"tokenize">>)
                     ELSE IF IsSpace(c) THEN QuotedFrom(text, i + 1, <<"tokenize">>)
                     ELSE QuotedFrom(text, i + 1, mode)
               [] mode[1] = "reference" ->
                     IF IsSpace(c) \/ c \in {";", ",", "{", "[", "}", "]"}
                     THEN QuotedFrom(text, i, <<"tokenize">>)
                     ELSE IF c \in {".", "!", "?"} THEN QuotedFrom(text, i + 1, mode)
                     ELSE IF c = "\"" THEN {i} \cup QuotedFrom(text, i + 1, <<"string", c, mode>>)
                     ELSE QuotedFrom(text, i + 1, <<"segment">>)
               [] mode[1] = "segment" ->
                     IF c \in {".", ";", ",", "{", "}", "[", "]", " "}
                     THEN QuotedFrom(text, i, <<"reference">>)
                     ELSE IF IsSpace(c) THEN QuotedFrom(text, i + 1, <<"reference">>)
                     ELSE QuotedFrom(text, i + 1, mode)
               [] mode[1] = "string" ->
                     IF c = mode[2] THEN {i} \cup QuotedFrom(text, i + 1, mode[3])
                     ELSE IF c # "\\" THEN {i} \cup QuotedFrom(text, i + 1, mode)
                     ELSE LET escape == IF i + 1 > Len(text) THEN 1
                                        ELSE IF text[i + 1] = "x" THEN 4
                                        ELSE IF text[i + 1] = "u" THEN 6
                                        ELSE 2
                          IN  {k \in i..(i + escape - 1) : k <= Len(text)}
                                  \cup QuotedFrom(text, i + escape, mode)

Quoted(text) == QuotedFrom(text, 1, <<"tokenize">>)

\* the text with every character from that is outside the quoted strings
\* replaced by the character to
Replace(text, from, to) ==
    LET quoted == Quoted(text)
    IN  SubSeq([i \in DOMAIN text |-> IF text[i] = from /\ i \notin quoted THEN to ELSE text[i]],
               1, Len(text))

\* two programs are equivalent on a document: one compiles exactly when the
\* other does, and then apply gives the same for both
Equivalent(run, other) ==
    IF run[1] = "compile" \/ other[1] = "compile" THEN run[1] = other[1] ELSE run = other

\* C18: replacing every ";" outside a quoted string with "," (or every ","
\* with ";") gives a program that compiles exactly when the program does and
\* then produces the same output on the input
C18_TerminatorsInterchangeable ==
    Finished =>
        /\ Equivalent(Outcome, Run(Replace(source_text, ";", ","), data))
        /\ Equivalent(Outcome, Run(Replace(source_text, ",", ";"), data))

\* a = "x;y=,";n = [&a, null];  has returned its output; the terminators
\* outside the string are replaced, those inside are kept
C18_Witness ==
    /\ Returned
    /\ source_text = <<"a", " ", "=", " ", "\"", "x", ";", "y", "=", ",", "\"", ";", "n", " ", "=", " ", "[", "&", "a", ",", " ", "n", "u", "l", "l", "]", ";">>
    /\ Replace(source_text, ";", ",") = <<"a", " ", "=", " ", "\"", "x", ";", "y", "=", ",", "\"", ",", "n", " ", "=", " ", "[", "&", "a", ",", " ", "n", "u", "l", "l", "]", ",">>
    /\ Replace(source_text, ",", ";") = <<"a", " ", "=", " ", "\"", "x", ";", "y", "=", ",", "\"", ";", "n", " ", "=", " ", "[", "&", "a", ";", " ", "n", "u", "l", "l", "]", ";">>
    /\ DOMAIN Items(result) = 1..2

(***************************************************************************)
(* C19.  "=" and ":" are interchangeable outside quoted strings.           *)
(***************************************************************************)
\* C19: replacing every "=" outside a quoted string with ":" (or every ":"
\* with "=") gives a program that compiles exactly when the program does and
\* then produces the same output on the input, also where the symbol is
\* written with no whitespace around it
C19_AssignmentsInterchangeable ==
    Finished =>
        /\ Equivalent(Outcome, Run(Replace(source_text, "=", ":"), data))
        /\ Equivalent(Outcome, Run(Replace(source_text, ":", "="), data))

\* every "=" outside the quoted strings follows a whitespace character
EqualsSignsSpaced(text) ==
    \A i \in DOMAIN text :
        (text[i] = "=" /\ i \notin Quoted(text)) => (i > 1 /\ IsSpace(text[i - 1]))

\* what holds instead: "=" may be replaced with ":" where whitespace stands
\* before every "="; a bare word ends at ":" but not at "="
C19_InterchangeableAfterWhitespace ==
    (Finished /\ EqualsSignsSpaced(source_text))
        => Equivalent(Outcome, Run(Replace(source_text, "=", ":"), data))

\* a:1; compiles and gives {"a": 1}
C19_ColonCompiles ==
    /\ source_text = <<"a", ":", "1", ";">>
    /\ result = Obj(<< <<SKey(tA), Num(1)>> >>)

\* a=1; is the bare word a=1 followed by a terminator: a syntax error at
\* the offset of the terminator
C19_EqualsSignFails ==
    /\ source_text = <<"a", "=", "1", ";">>
    /\ result = JsonMapSyntaxError(3)

(***************************************************************************)
(* C20.  Additional terminators between the statements of the top level or *)
(* of a scope in braces leave the output unchanged.                        *)
(***************************************************************************)
RECURSIVE OpenBrackets(_, _)
\* the brackets that are open after the first j tokens, the innermost last
OpenBrackets(tokens, j) ==
    IF j = 0 THEN <<>>
    ELSE LET before == OpenBrackets(tokens, j - 1)
         IN  IF IsOpening(tokens[j]) THEN Append(before, tokens[j][3])
             ELSE IF IsClosing(tokens[j]) /\ before # <<>> THEN SubSeq(before, 1, Len(before) - 1)
             ELSE before

\* after the first j tokens the text is at the top level, or directly inside
\* braces that are closed further on
AtStatementLevel(tokens, j) ==
    LET open == OpenBrackets(tokens, j)
    IN  \/ open = <<>>
        \/ /\ open[Len(open)] = "left_curly_brace"
           /\ \E later \in (j + 1)..Len(tokens) : Len(OpenBrackets(tokens, later)) < Len(open)

\* the places of a text where a statement of the top level or of a scope in
\* braces may begin or has just ended: the beginning of the text, behind a
\* terminator, behind the opening brace and before the closing brace of a
\* scope.  A place is the index of the character the terminators are put in
\* front of.
InsertionPoints(text) ==
    LET program_tokens == tokenize(text)
        tokens == program_tokens[2]
    IN  IF IsRaise(program_tokens) THEN {}
        ELSE {1}
            \cup {tokens[j][2] + 2 : j \in {k \in DOMAIN tokens :
                    /\ is_symbol(tokens[k], "end_of_statement") \/ is_symbol(tokens[k], "left_curly_brace")
                    /\ AtStatementLevel(tokens, k)}}
            \cup {tokens[j][2] + 1 : j \in {k \in DOMAIN tokens :
                    /\ is_symbol(tokens[k], "right_curly_brace")
                    /\ AtStatementLevel(tokens, k - 1)}}

\* one to MaxExtra terminators
ExtraTerminators == SeqsUpTo({";", ","}, MaxExtra) \ {<<>>}

\* the text with extra put in front of the character at the place
Insert(text, place, extra) ==
    SubSeq(text, 1, place - 1) \o extra \o SubSeq(text, place, Len(text))

\* C20: no-op statements contribute nothing: with any number of additional
\* terminators between two statements, before the first or after the last
\* statement of the top level or of a scope in braces, the program gives the
\* same output on the input
C20_ExtraTerminatorsChangeNothing ==
    (Finished /\ ~CompileFailed) =>
        \A place \in InsertionPoints(source_text), extra \in ExtraTerminators :
            Run(Insert(source_text, place, extra), data) = Outcome

\* a = 1;n = {v = &a;};  has returned {"a": 1, "n": {"v": [1]}}; terminators
\* are put in at the beginning, inside the braces and behind each statement
C20_Witness ==
    /\ source_text = <<"a", " ", "=", " ", "1", ";", "n", " ", "=", " ", "{", "v", " ", "=", " ", "&", "a", ";", "}", ";">>
    /\ InsertionPoints(source_text) = {1, 7, 12, 19, 21}
    /\ result = Obj(<< <<SKey(tA), Num(1)>>, <<SKey(tN), Obj(<< <<SKey(tV), Arr(<<Num(1)>>)>> >>)>> >>)
    /\ Insert(source_text, 19, <<";", ",">>) = <<"a", " ", "=", " ", "1", ";", "n", " ", "=", " ", "{", "v", " ", "=", " ", "&", "a", ";", ";", ",", "}", ";">>

(***************************************************************************)
(* Sources for the references and the array literals.  A reference text is *)
(* the statement  a = &  followed by up to MaxChars characters of a path,  *)
(* by one character that ends a reference in the specification and by the  *)
(* text behind it; an array text is an array literal of two elements with  *)
(* up to MaxExtra + 1 terminators between them.  The run compiles the      *)
(* source and applies the mapping to the document.                         *)
(***************************************************************************)
ReferencePrefix == <<"a", " ", "=", " ", "&">>

\* the characters of a path: a name, the separator and the global marker
PathChars == {"a", ".", "!"}

\* whitespace and the symbols that end a reference
Enders == {" ", "\t", "\n", ";", ",", "{", "}", "[", "]"}

\* what is written behind the reference
Tails == {<<>>, <<";">>, <<"a", ";">>}

ReferenceTexts ==
    {ReferencePrefix \o body \o <<ender>> \o tail :
        body \in SeqsUpTo(PathChars, MaxChars), ender \in Enders, tail \in Tails}

\* "a"   1   &a   null   {a = 1}   [1]
ElementTexts == {<<"\"", "a", "\"">>, <<"1">>, <<"&", "a">>, <<"n", "u", "l", "l">>, <<"{", "a", " ", "=", " ", "1", "}">>, <<"[", "1", "]">>}

\* n = [ first between second ];
ArrayText(first, between, second) ==
    <<"n", " ", "=", " ", "[">> \o first \o between \o second \o <<"]", ";">>

\* n = ["a",,1];   ...
ArrayTexts ==
    {ArrayText(first, between, second) :
        first \in ElementTexts, second \in ElementTexts,
        between \in SeqsUpTo({";", ","}, MaxExtra + 1)}

\* a collection operation with a globally-marked argument
\*   bind &!a {u = &x;}   map &!b {u = &x;}   map &!b [&x]   zip &!b {u = &x;}
GlobalOperations ==
    {<<"b", "i", "n", "d", " ", "&", "!", "a", " ", "{", "u", " ", "=", " ", "&", "x", ";", "}">>, <<"m", "a", "p", " ", "&", "!", "b", " ", "{", "u", " ", "=", " ", "&", "x", ";", "}">>, <<"m", "a", "p", " ", "&", "!", "b", " ", "[", "&", "x", "]">>, <<"z", "i", "p", " ", "&", "!", "b", " ", "{", "u", " ", "=", " ", "&", "x", ";", "}">>}

\* the operation in the body of a bind, in the body of a map, and on its own
\*   n = bind &a {w = bind &!a {u = &x;};};   ...
GlobalTexts ==
    {before \o operation \o behind :
        operation \in GlobalOperations \cup {<<"&", "!", "b">>},
        <<before, behind>> \in {<<<<"n", " ", "=", " ", "b", "i", "n", "d", " ", "&", "a", " ", "{", "w", " ", "=", " ">>, <<";", "}", ";">>>>,
                                <<<<"n", " ", "=", " ", "m", "a", "p", " ", "&", "b", " ", "{", "w", " ", "=", " ">>, <<";", "}", ";">>>>,
                                <<<<"w", " ", "=", " ">>, <<";">>>>}}

\* the decimal text of an integer
IntText(k) == IF k < 0 THEN <<"-">> \o NatText(0 - k) ELSE NatText(k)

\* a = &b.-1;   a = &c.?2;   ...   an index into the array b or c, as a
\* segment of a reference and as a segment of a list-index reference
IndexText(name, marker, k) == <<"a", " ", "=", " ", "&">> \o name \o <<".">> \o marker \o IntText(k) \o <<";">>

IndexTexts ==
    {IndexText(name, marker, k) :
        name \in {<<"b">>, <<"c">>}, marker \in {<<>>, <<"?">>}, k \in (0 - MaxIndex)..MaxIndex}

RECURSIVE NamedNumbers(_, _)
\* a = 1;b = 2;a = 3;   the statement j gives the number j to the name j
NamedNumbers(names, j) ==
    IF j > Len(names) THEN <<>>
    ELSE <<names[j]>> \o <<" ", "=", " ">> \o NatText(j) \o <<";">> \o NamedNumbers(names, j + 1)

\* the scopes a statement list is written in: the top level, an inline
\* scope, the body of a bind, the body of a map, the body of a zip
ScopeKinds == {"top", "inline", "bind", "map", "zip"}

ScopeText(kind, body) ==
    CASE kind = "top" -> body
      [] kind = "inline" -> <<"n", " ", "=", " ", "{">> \o body \o <<"}", ";">>
      [] kind = "bind" -> <<"n", " ", "=", " ", "b", "i", "n", "d", " ", "&", "a", " ", "{">> \o body \o <<"}", ";">>
      [] kind = "map" -> <<"n", " ", "=", " ", "m", "a", "p", " ", "&", "b", " ", "{">> \o body \o <<"}", ";">>
      [] kind = "zip" -> <<"n", " ", "=", " ", "z", "i", "p", " ", "&", "b", " ", "{">> \o body \o <<"}", ";">>

\* the names of the statements of a list: some of them are given twice
NameLists == SeqsUpTo({"a", "b"}, MaxStatements + 1) \ {<<>>}

DuplicateTexts == {ScopeText(kind, NamedNumbers(names, 1)) : kind \in ScopeKinds, names \in NameLists}

SyntaxTexts == ReferenceTexts \cup ArrayTexts \cup GlobalTexts \cup IndexTexts \cup DuplicateTexts

\* {"a": {"a": 1, "x": 2}, "b": [{"x": 3}, {"x": 4}], "x": 5, "c": [7]}
SyntaxDocument ==
    Obj(<< <<SKey(tA), Obj(<< <<SKey(tA), Num(1)>>, <<SKey(tX), Num(2)>> >>)>>,
           <<SKey(tB), Arr(<<Obj(<< <<SKey(tX), Num(3)>> >>), Obj(<< <<SKey(tX), Num(4)>> >>)>>)>>,
           <<SKey(tX), Num(5)>>,
           <<SKey(<<"c">>), Arr(<<Num(7)>>)>> >>)

SyntaxInit ==
    /\ source_text \in SyntaxTexts
    /\ program = <<>>
    /\ data = SyntaxDocument
    /\ output = <<>>
    /\ index = 0
    /\ result = Uncompiled

SyntaxSpec == SyntaxInit /\ [][CompileNext]_vars

\* the text is one of the reference texts
IsReferenceText(text) ==
    Len(text) > Len(ReferencePrefix) /\ SubSeq(text, 1, Len(ReferencePrefix)) = ReferencePrefix

\* the place of the first character behind "&"
ReferenceStart == Len(ReferencePrefix) + 1

\* the place of the character that ends the reference of a reference text
ReferenceEnd(text) == Min({i \in ReferenceStart..Len(text) : text[i] \in Enders})

(***************************************************************************)
(* C21.  The global marker is accepted only as the first thing after "&".  *)
(***************************************************************************)
\* the places of a "!" in the reference which is not the first "!" or which
\* stands behind the beginning of a path segment
LateMarkers(text) ==
    {i \in ReferenceStart..(ReferenceEnd(text) - 1) :
        /\ text[i] = "!"
        /\ \E j \in ReferenceStart..(i - 1) : text[j] # "."}

\* C21: a "!" in a reference that comes after the first "!" or after a path
\* segment has started (&!!a, &a.!b, &a!b) makes tokenize fail with a
\* syntax error
C21_LateMarkerIsSyntaxError ==
    (result # Uncompiled /\ IsReferenceText(source_text) /\ LateMarkers(source_text) # {})
        => IsSyntaxError(tokenize(source_text))

\* a "!" behind a path segment that is complete is a syntax error at the
\* offset of the "!"
C21_MarkerBehindSegmentIsSyntaxError ==
    (result # Uncompiled /\ IsReferenceText(source_text))
        => \A i \in LateMarkers(source_text) :
              (/\ source_text[i - 1] = "."
               /\ \E j \in ReferenceStart..(i - 1) : source_text[j] = "a"
               /\ LateMarkers(source_text) \cap ReferenceStart..(i - 1) = {})
                  => tokenize(source_text) = JsonMapSyntaxError(i - 1)

\* a = &!!a;  is tokenized and compiled, and gives the field a of the input
C21_SecondMarkerAccepted ==
    /\ source_text = <<"a", " ", "=", " ", "&", "!", "!", "a", ";">>
    /\ tokenize(source_text)[1] = "ok"
    /\ tokenize(source_text)[2][3] = ReferenceToken(5, <<SKey(tA)>>, TRUE)
    /\ result = Obj(<< <<SKey(tA), DictGet(Items(data), SKey(tA))>> >>)

\* a = &a!a;  is tokenized with the path segment a!a
C21_MarkerInsideSegmentAccepted ==
    /\ source_text = <<"a", " ", "=", " ", "&", "a", "!", "a", ";">>
    /\ result # Uncompiled
    /\ tokenize(source_text)[1] = "ok"
    /\ tokenize(source_text)[2][3] = ReferenceToken(5, <<SKey(<<"a", "!", "a">>)>>, FALSE)

(***************************************************************************)
(* C22.  A reference ends at the first whitespace or terminator.           *)
(***************************************************************************)
\* the tokens with their positions moved by offset
Shifted(tokens, offset) == [k \in DOMAIN tokens |-> [tokens[k] EXCEPT ![2] = @ + offset]]

\* the tokens of a text that is cut in two at place: those of the beginning,
\* read with a blank behind it, followed by those of the rest
TokensCutAt(text, place) ==
    LET Joined(before, behind) ==
            IF IsRaise(before) THEN before
            ELSE IF IsRaise(behind) THEN behind
            ELSE <<"ok", before[2] \o Shifted(behind[2], place - 1)>>
    IN  Joined(tokenize(SubSeq(text, 1, place - 1) \o <<" ">>),
               tokenize(SubSeq(text, place, Len(text))))

\* C22: a reference token ends at the first whitespace character (space,
\* tab or newline) or at the first of ; , { } [ ]: the token is that of the
\* reference written before this character, and what follows is tokenized
\* as separate tokens
C22_ReferenceEndsAtFirstEnder ==
    (result # Uncompiled /\ IsReferenceText(source_text))
        => tokenize(source_text) = TokensCutAt(source_text, ReferenceEnd(source_text))

\* the reference ends at a blank and at each of ; , { } [ ]
C22_ReferenceEndsAtBlankOrSymbol ==
    (/\ result # Uncompiled
     /\ IsReferenceText(source_text)
     /\ source_text[ReferenceEnd(source_text)] \notin {"\t", "\n"})
        => tokenize(source_text) = TokensCutAt(source_text, ReferenceEnd(source_text))

\* a = &a<tab>a;  is one reference with the path a.a: apply returns the
\* field a of the field a
C22_TabJoinsSegments ==
    /\ source_text = <<"a", " ", "=", " ", "&", "a", "\t", "a", ";">>
    /\ tokenize(source_text) =
           <<"ok", <<BareWord(0, tA), SymbolToken(2, "assignment"),
                     ReferenceToken(5, <<SKey(tA), SKey(tA)>>, FALSE),
                     SymbolToken(8, "end_of_statement")>> >>
    /\ result = Obj(<< <<SKey(tA), Num(1)>> >>)

\* a = &a a;  is the reference a followed by the bare word a
C22_BlankEndsReference ==
    /\ source_text = <<"a", " ", "=", " ", "&", "a", " ", "a", ";">>
    /\ result = JsonMapSyntaxError(7)
    /\ tokenize(source_text) =
           <<"ok", <<BareWord(0, tA), SymbolToken(2, "assignment"),
                     ReferenceToken(5, <<SKey(tA)>>, FALSE), BareWord(7, tA),
                     SymbolToken(8, "end_of_statement")>> >>

(***************************************************************************)
(* C23.  The positions of the tokens.                                      *)
(***************************************************************************)
IsReferenceToken(token) == token[1] \in {"ReferenceToken", "ListIndexReferenceToken"}

\* the token carries the offset of its first character; a reference carries
\* the offset of the character that follows "&"
CarriesOffset(token, text) ==
    /\ token[2] \in 0..(Len(text) - 1)
    /\ CASE token[1] = "SymbolToken" -> SymbolOf(text[token[2] + 1]) = token[3]
         [] token[1] = "BareWord" -> token[3] # <<>> /\ text[token[2] + 1] = token[3][1]
         [] token[1] = "LiteralToken" -> text[token[2] + 1] = "\""
         [] token[1] = "InterpolationToken" -> text[token[2] + 1] = Backquote
         [] IsReferenceToken(token) -> token[2] >= 1 /\ text[token[2]] = "&"

\* every token of the list carries its offset
TokensCarryOffsets(tokens, text) == \A k \in DOMAIN tokens : CarriesOffset(tokens[k], text)

\* C23 as it is written: every token carries the offset of its first
\* character, a reference that of the character following "&", and the
\* positions of the token list are strictly increasing and inside the source
C23_PositionsStrictlyIncrease ==
    (result # Uncompiled /\ IsOk(tokenize(source_text)))
        => LET tokens == tokenize(source_text)[2]
           IN  /\ TokensCarryOffsets(tokens, source_text)
               /\ \A k \in 1..(Len(tokens) - 1) : tokens[k][2] < tokens[k + 1][2]

\* C23: every token carries the offset of its first character, a reference
\* that of the character following "&"; the positions lie inside the source
\* and never decrease, and two tokens have the same position only where a
\* reference with an empty path is followed by the token of the character
\* that stands directly behind "&"
C23_PositionsIncrease ==
    (result # Uncompiled /\ IsOk(tokenize(source_text)))
        => LET tokens == tokenize(source_text)[2]
           IN  /\ TokensCarryOffsets(tokens, source_text)
               /\ \A k \in 1..(Len(tokens) - 1) :
                     \/ tokens[k][2] < tokens[k + 1][2]
                     \/ /\ tokens[k][2] = tokens[k + 1][2]
                        /\ IsReferenceToken(tokens[k])
                        /\ tokens[k][3] = <<>>

\* a = &a.a;  is compiled: the bare word at 0, the assignment at 2, the
\* reference at 5 (the "&" is at 4) and the terminator at 8
C23_Witness ==
    /\ source_text = <<"a", " ", "=", " ", "&", "a", ".", "a", ";">>
    /\ result # Uncompiled
    /\ tokenize(source_text) =
           <<"ok", <<BareWord(0, tA), SymbolToken(2, "assignment"),
                     ReferenceToken(5, <<SKey(tA), SKey(tA)>>, FALSE),
                     SymbolToken(8, "end_of_statement")>> >>

\* a = &;  is compiled: the reference with no segment and the terminator
\* both have the position 5
C23_WitnessSamePosition ==
    /\ source_text = <<"a", " ", "=", " ", "&", ";">>
    /\ result # Uncompiled
    /\ tokenize(source_text) =
           <<"ok", <<BareWord(0, tA), SymbolToken(2, "assignment"),
                     ReferenceToken(5, <<>>, FALSE),
                     SymbolToken(5, "end_of_statement")>> >>

(***************************************************************************)
(* C24.  A globally-marked reference as the argument of bind, map or zip.  *)
(***************************************************************************)
IsGlobalReference(node) == node[1] = "Reference" /\ node[3]

\* the right-hand side is a bind, map or zip whose arguments are
\* globally-marked references that can be walked from the input
HasGlobalArgument(rhs) ==
    \/ /\ rhs[1] \in {"Bind", "Map"}
       /\ IsGlobalReference(rhs[3])
       /\ Walks(data, rhs[3][2])
    \/ /\ rhs[1] = "Zip"
       /\ rhs[3] # <<>>
       /\ \A s \in DOMAIN rhs[3] : IsGlobalReference(rhs[3][s]) /\ Walks(data, rhs[3][s][2])

\* value is what the operation produces when its arguments are walked from
\* the input of apply
UniverseHolds(rhs, value) ==
    CASE rhs[1] = "Bind" -> BindHolds(rhs, data, value)
      [] rhs[1] = "Map" ->
            IsList(Walk(data, rhs[3][2])) => EachScope(rhs[2], Items(Walk(data, rhs[3][2])), value)
      [] rhs[1] = "Zip" ->
            (\A s \in DOMAIN rhs[3] : IsList(Walk(data, rhs[3][s][2])))
                => EachScope(rhs[2], ZipScopes([s \in DOMAIN rhs[3] |-> Walk(data, rhs[3][s][2])]), value)

\* value is what the operation produces when its arguments are resolved in
\* the scope
ScopeHolds(rhs, scope, value) ==
    value = evaluate([rhs EXCEPT ![3] = IF rhs[1] = "Zip"
                                        THEN [s \in DOMAIN rhs[3] |-> [rhs[3][s] EXCEPT ![3] = FALSE]]
                                        ELSE [rhs[3] EXCEPT ![3] = FALSE]],
                     scope, data)

\* the run is over and the statement k has bound the scope of its body
Narrowed(k) ==
    /\ Finished
    /\ k \in DOMAIN program
    /\ IsLocalBind(program[k])
    /\ program[k][3][2][1] = "list"
    /\ Walks(data, program[k][3][3][2])
    /\ IsDict(Walk(data, program[k][3][3][2]))

\* what the run shows of the statement j of the body of the bind k
Inner(k, j) ==
    IF Returned THEN DictGet(Items(Observed(k)), NameKey(program[k][3][2][2][j])) ELSE result

\* C24: a globally-marked reference used as the argument of bind, map or zip
\* inside a narrowed scope is resolved against the universe, as it is when
\* it is the right-hand side of a statement, not against the local scope
C24_GlobalArgumentUsesUniverse ==
    \A k \in DOMAIN program :
        Narrowed(k) =>
            \A j \in DOMAIN program[k][3][2][2] :
                LET body == program[k][3][2][2]
                IN  (IsNamed(body[j]) /\ LastOfName(body, j) /\ HasGlobalArgument(body[j][3]))
                        => UniverseHolds(body[j][3], Inner(k, j))

\* the argument is resolved in the local scope, with or without the marker
C24_GlobalArgumentUsesScope ==
    \A k \in DOMAIN program :
        Narrowed(k) =>
            \A j \in DOMAIN program[k][3][2][2] :
                LET body == program[k][3][2][2]
                IN  (IsNamed(body[j]) /\ LastOfName(body, j) /\ HasGlobalArgument(body[j][3]))
                        => ScopeHolds(body[j][3], Walk(data, program[k][3][3][2]), Inner(k, j))

\* n = bind &a {w = bind &!a {u = &x;};};  the universe has an object at a,
\* the scope of the body has the number 1 there: apply fails
C24_GlobalBindFails ==
    /\ source_text = <<"n", " ", "=", " ", "b", "i", "n", "d", " ", "&", "a", " ", "{", "w", " ", "=", " ", "b", "i", "n", "d", " ", "&", "!", "a", " ", "{", "u", " ", "=", " ", "&", "x", ";", "}", ";", "}", ";">>
    /\ Narrowed(1)
    /\ IsDict(Walk(data, <<SKey(tA)>>))
    /\ result = Raise("ValueError")

\* n = bind &a {w = map &!b {u = &x;};};  the universe has an array at b,
\* the scope of the body has no b: apply fails
C24_GlobalMapFails ==
    /\ source_text = <<"n", " ", "=", " ", "b", "i", "n", "d", " ", "&", "a", " ", "{", "w", " ", "=", " ", "m", "a", "p", " ", "&", "!", "b", " ", "{", "u", " ", "=", " ", "&", "x", ";", "}", ";", "}", ";">>
    /\ Narrowed(1)
    /\ IsList(Walk(data, <<SKey(tB)>>))
    /\ result = Raise("KeyError")

\* n = bind &a {w = &!b;};  as a right-hand side the reference gives the
\* array at b of the universe
C24_GlobalRightHandSide ==
    /\ source_text = <<"n", " ", "=", " ", "b", "i", "n", "d", " ", "&", "a", " ", "{", "w", " ", "=", " ", "&", "!", "b", ";", "}", ";">>
    /\ Narrowed(1)
    /\ Inner(1, 1) = Walk(data, <<SKey(tB)>>)

(***************************************************************************)
(* C25.  Array indices in a reference path are signed.                     *)
(***************************************************************************)
\* what the run must show when the index k is resolved against the array:
\* the element k, the element n + k for a negative k, or a failure
IndexHolds(array, k) ==
    LET n == Len(Items(array))
    IN  IF k >= 0 /\ k < n
        THEN Returned /\ result = Obj(<< <<SKey(tA), Items(array)[k + 1]>> >>)
        ELSE IF k < 0 /\ k >= 0 - n
        THEN Returned /\ result = Obj(<< <<SKey(tA), Items(array)[n + k + 1]>> >>)
        ELSE IsRaise(result) /\ ~CompileFailed

\* C25: array indices in a reference path are signed integers: against an
\* array of length n an index k with 0 <= k < n selects element k, an index
\* with -n <= k < 0 selects element n + k, and any other index makes the
\* evaluation fail
C25_ArrayIndicesAreSigned ==
    \A name \in {<<"b">>, <<"c">>}, marker \in {<<>>, <<"?">>}, k \in (0 - MaxIndex)..MaxIndex :
        (Finished /\ source_text = IndexText(name, marker, k))
            => IndexHolds(Walk(data, <<SKey(name)>>), k)

\* a = &b.-2;  has given the first of the two elements of b
C25_Witness ==
    /\ source_text = <<"a", " ", "=", " ", "&", "b", ".", "-", "2", ";">>
    /\ Len(Items(Walk(data, <<SKey(tB)>>))) = 2
    /\ result = Obj(<< <<SKey(tA), Items(Walk(data, <<SKey(tB)>>))[1]>> >>)

\* a = &b.-3;  has failed: the array has two elements
C25_WitnessOutOfRange ==
    /\ source_text = <<"a", " ", "=", " ", "&", "b", ".", "-", "3", ";">>
    /\ Len(Items(Walk(data, <<SKey(tB)>>))) = 2
    /\ result = Raise("IndexError")
    /\ program # <<>>

(***************************************************************************)
(* C26.  A reference whose path is empty.                                  *)
(***************************************************************************)
\* the text has a plain reference token whose path is empty
HasEmptyReference(text) ==
    LET Among(tokens) ==
            /\ IsOk(tokens)
            /\ \E t \in DOMAIN tokens[2] :
                    tokens[2][t][1] = "ReferenceToken" /\ tokens[2][t][3] = <<>>
    IN  Among(tokenize(text))

\* the statement k is NAME = &  with nothing behind the "&"
IsEmptyReference(k) ==
    /\ IsNamed(program[k])
    /\ program[k][3][1] = "Reference"
    /\ program[k][3][2] = <<>>

\* C26: evaluating a plain reference whose path is empty (the right-hand
\* side "&" followed directly by a terminator) fails with an evaluation
\* error; it does not evaluate to the whole current scope or to any value
C26_EmptyReferenceFails ==
    \A k \in DOMAIN program :
        (Finished /\ HasEmptyReference(source_text) /\ IsEmptyReference(k) /\ Observable(k))
            => RaisedAt(k)

\* what the code does: the reference evaluates to the whole current scope
C26_EmptyReferenceGivesScope ==
    \A k \in DOMAIN program :
        (Finished /\ HasEmptyReference(source_text) /\ IsEmptyReference(k) /\ Observable(k))
            => Returned /\ Observed(k) = data

\* a = &;  has returned {"a": the input of apply}
C26_WholeScopeReturned ==
    /\ source_text = <<"a", " ", "=", " ", "&", ";">>
    /\ result = Obj(<< <<SKey(tA), data>> >>)
    /\ IsEmptyReference(1)
    /\ HasEmptyReference(source_text)

(***************************************************************************)
(* C27.  The terminators between two elements of an array literal.         *)
(***************************************************************************)
\* C27: inside an array literal at most one EndOfStatement token is accepted
\* between two consecutive elements, whatever the kind of the preceding
\* element: two consecutive terminators between elements, as in ["a",,"b"]
\* or [1,,2], are a syntax error
C27_TwoTerminatorsAreSyntaxError ==
    \A first \in ElementTexts, second \in ElementTexts,
       between \in SeqsUpTo({";", ","}, MaxExtra + 1) :
        (Finished /\ Len(between) >= 2 /\ source_text = ArrayText(first, between, second))
            => CompileFailed /\ IsSyntaxError(result)

\* the elements whose parse consumes a terminator itself (Rhs.parse calls
\* _assert_end_of_statement for them): a string, a reference, null
ConsumesTerminator(element) == element \in {<<"\"", "a", "\"">>, <<"&", "a">>, <<"n", "u", "l", "l">>}

\* what the code does: behind a string, a reference or null one or two
\* terminators are accepted; behind a number, a scope or an array only one
C27_TerminatorsDependOnElement ==
    \A first \in ElementTexts, second \in ElementTexts,
       between \in SeqsUpTo({";", ","}, MaxExtra + 1) :
        (Finished /\ Len(between) >= 1 /\ source_text = ArrayText(first, between, second))
            => IF Len(between) \in (IF ConsumesTerminator(first) THEN {1, 2} ELSE {1})
               THEN ~CompileFailed
               ELSE CompileFailed /\ IsSyntaxError(result)

\* n = ["a",,"a"];  is compiled and gives {"n": ["a", "a"]}
C27_TwoAfterStringAccepted ==
    /\ source_text = <<"n", " ", "=", " ", "[", "\"", "a", "\"", ",", ",", "\"", "a", "\"", "]", ";">>
    /\ result = Obj(<< <<SKey(tN), Arr(<<Str(tA), Str(tA)>>)>> >>)

\* n = [1,,1];  is a syntax error at the second terminator
C27_TwoAfterNumberRejected ==
    /\ source_text = <<"n", " ", "=", " ", "[", "1", ",", ",", "1", "]", ";">>
    /\ program = <<>>
    /\ result = <<"raise", "JsonMapSyntaxError", 7>>

(***************************************************************************)
(* C28.  Two statements of one scope that bind the same name.              *)
(***************************************************************************)
RECURSIVE OneEntryEach(_, _)
\* the pairs of the names of the list in the order of their first
\* occurrence, each with the number of the last statement that has the name
OneEntryEach(names, j) ==
    IF j > Len(names) THEN <<>>
    ELSE IF \E earlier \in 1..(j - 1) : names[earlier] = names[j]
    THEN OneEntryEach(names, j + 1)
    ELSE LET last == CHOOSE l \in j..Len(names) :
                        /\ names[l] = names[j]
                        /\ \A later \in (l + 1)..Len(names) : names[later] # names[j]
         IN  << <<SKey(<<names[j]>>), Num(last)>> >> \o OneEntryEach(names, j + 1)

\* what apply returns for the statement list written in a scope of the kind
ScopeResult(kind, object) ==
    CASE kind = "top" -> object
      [] kind \in {"inline", "bind"} -> Obj(<< <<SKey(tN), object>> >>)
      [] kind \in {"map", "zip"} ->
            Obj(<< <<SKey(tN), Arr([item \in DOMAIN Items(Walk(data, <<SKey(tB)>>)) |-> object])>> >>)

\* C28: when two named statements of one scope (top level, inline scope,
\* bind body, map or zip body) bind the same name, the object produced has
\* exactly one entry for the name; it holds the value of the textually later
\* statement and sits at the position of the first occurrence
C28_LaterValueFirstPosition ==
    \A kind \in ScopeKinds, names \in NameLists :
        (Finished /\ source_text = ScopeText(kind, NamedNumbers(names, 1)))
            => result = ScopeResult(kind, Obj(OneEntryEach(names, 1)))

\* n = map &b {a = 1;b = 2;a = 3;};  has given {"a": 3, "b": 2} for each of
\* the two elements of b
C28_Witness ==
    /\ source_text = <<"n", " ", "=", " ", "m", "a", "p", " ", "&", "b", " ", "{", "a", " ", "=", " ", "1", ";", "b", " ", "=", " ", "2", ";", "a", " ", "=", " ", "3", ";", "}", ";">>
    /\ result = Obj(<< <<SKey(tN), Arr(<< Obj(<< <<SKey(tA), Num(3)>>, <<SKey(tB), Num(2)>> >>),
                                          Obj(<< <<SKey(tA), Num(3)>>, <<SKey(tB), Num(2)>> >>) >>)>> >>)

\* b = 1;a = 2;b = 3;  has given {"b": 3, "a": 2} at the top level
C28_WitnessTopLevel ==
    /\ source_text = <<"b", " ", "=", " ", "1", ";", "a", " ", "=", " ", "2", ";", "b", " ", "=", " ", "3", ";">>
    /\ result = Obj(<< <<SKey(tB), Num(3)>>, <<SKey(tA), Num(2)>> >>)

\* the same list in an inline scope and in the body of a bind
C28_WitnessInline ==
    /\ source_text \in {<<"n", " ", "=", " ", "{", "b", " ", "=", " ", "1", ";", "a", " ", "=", " ", "2", ";", "b", " ", "=", " ", "3", ";", "}", ";">>, <<"n", " ", "=", " ", "b", "i", "n", "d", " ", "&", "a", " ", "{", "b", " ", "=", " ", "1", ";", "a", " ", "=", " ", "2", ";", "b", " ", "=", " ", "3", ";", "}", ";">>}
    /\ result = Obj(<< <<SKey(tN), Obj(<< <<SKey(tB), Num(3)>>, <<SKey(tA), Num(2)>> >>)>> >>)

====
